---- MODULE Spec2Model ----
(***************************************************************************)
(* Host claim/release protocol of the bring-your-own-host infrastructure   *)
(* provider: the ByoMachine controller (controllers, part_009), the        *)
(* ByoHost controller (byohost_controller.go) and the host agent's         *)
(* reconciler (part_004), cooperating through the API server's objects.    *)
(*                                                                         *)
(* API-server contract used by the code: Get/List return the stored        *)
(* object; Update is a compare-and-set on the resource version; a          *)
(* patch.Helper writes exactly the fields whose value differs between the  *)
(* object as it was when the helper was created and the object handed to   *)
(* Patch, with no resource-version check.                                  *)
(*                                                                         *)
(* Scope: kubeadm join mode; every Machine has an installer config that is *)
(* ready; nothing is paused or remediated; all hosts declare the default   *)
(* priority and capacity; a host is deleted only where a specification     *)
(* says so, and then another controller's finalizer holds it; the install, *)
(* bootstrap and reset scripts succeed.  A reconcile of the ByoHost        *)
(* controller, and a deleting or attached reconcile of the ByoMachine      *)
(* controller, is one step; a claim and an agent reconcile are several.    *)
(* The Node of a host is one object, whichever client reads or deletes it. *)
(***************************************************************************)
EXTENDS Integers, FiniteSets, Sequences, TLC

Hosts == {"h1", "h2"}
Machines == {"m1", "m2"}
Replicas == {"r1", "r2"}
None == "none"

\* An absent time stamp; a present one is <<elapsed ticks>>.
NoStamp == <<>>

\* hostsList order of a List call: hosts come back ordered by name.
HostOrder == <<"h1", "h2">>

\* MaxRetries of attachByoHost.
MaxRetries == 5

\* Cleanup timeout of a default-capacity host (getCleanupTimeout), in clock ticks.
TimeoutTicks == 2

VARIABLES
    byoHost,          \* ByoHost objects in the API server
    byoMachine,       \* ByoMachine objects in the API server
    node,             \* workload-cluster Node objects, by host name
    mc,               \* ByoMachineReconciler.Reconcile in flight, per replica
    roundRobinIndex,  \* ByoMachineReconciler.roundRobinIndex[clusterName], per replica
    agent,            \* HostReconciler.Reconcile in flight, per host
    machineIDFile,    \* /run/cluster-api/machine-id on each host
    registered,       \* hosts whose agent has registered a ByoHost object
    SkipK8sInstallation, \* HostReconciler.SkipK8sInstallation (agent flag)
    extraArgs,        \* kubeletExtraArgs["provider-id"] of the join configuration
    tlsBootstrap,     \* createBootstrapSecretTLSBootstrap: what it reads, what it made
    csr,              \* a CertificateSigningRequest of the workload cluster
    cmdRun,           \* executeInstallerController: the script and its execution
    timeoutCalc,      \* getCleanupTimeout: the environment, the host, the result
    selection,        \* selectHostForClaim: the hosts listed, the cursors, the result
    codec,            \* a write_files entry: its data, its content, what decodeContent returns
    claimLoop,        \* attachByoHost's retry loop in either join mode
    waits,            \* the wait between two attempts of a retry loop, and its context
    bootstrapKubeconfig, \* a BootstrapKubeconfig object and the token secrets made for it
    cleanupAge        \* ticks since the cleanup annotation was last set (observer)

vars == <<byoHost, byoMachine, node, mc, roundRobinIndex, agent, machineIDFile,
          registered, SkipK8sInstallation, extraArgs, cleanupAge, tlsBootstrap, csr,
          cmdRun, timeoutCalc, selection, codec, claimLoop, waits, bootstrapKubeconfig>>

\* The claim/release protocol's variables, and the state of the components
\* beside it.
protocol == <<byoHost, byoMachine, node, mc, roundRobinIndex, agent, machineIDFile,
              registered, SkipK8sInstallation, extraArgs, cleanupAge>>

\* The calls of functions that are checked on their own.
calcs == <<timeoutCalc, selection, codec, claimLoop, waits, bootstrapKubeconfig>>

aside == <<tlsBootstrap, csr, cmdRun, calcs>>

NoLease == [holder |-> None, valid |-> FALSE]

\* A freshly registered ByoHost: no claim, no labels, no annotations, no
\* capacity declared (cpu is Spec.Capacity[cpu]: <<>> or <<whole CPUs>>).
FreeHost ==
    [machineRef |-> None, label |-> None, bootstrapSecret |-> None,
     installationSecret |-> FALSE, cleanupAnn |-> FALSE, startedAt |-> NoStamp,
     lease |-> NoLease, installed |-> FALSE, bootstrapped |-> FALSE,
     auditAnn |-> FALSE, deletionAge |-> NoStamp, cpu |-> <<>>]

IdleMC ==
    [pc |-> "idle", machine |-> None, host |-> None, latestHost |-> FreeHost,
     fresh |-> FALSE, avail |-> {}, attempt |-> 0]

IdleAgent == [pc |-> "idle", snap |-> FreeHost]

Min(a, b) == IF a < b THEN a ELSE b

\* Sequence of the hosts of S in list order.
RECURSIVE InOrder(_, _)
InOrder(S, i) ==
    IF i > Len(HostOrder) THEN <<>>
    ELSE (IF HostOrder[i] \in S THEN <<HostOrder[i]>> ELSE <<>>) \o InOrder(S, i + 1)

\* ByoHost.IsAvailable: no MachineRef and no cleanup annotation.
IsAvailable(hostObj) == hostObj.machineRef = None /\ ~hostObj.cleanupAnn

\* A ByoMachine before its first reconcile.
\* A Node's empty Spec.ProviderID; a set one is <<prefix, host name>> or
\* <<prefix, host name, suffix>>.
NoProviderID == <<>>

NewMachine ==
    [state |-> "active", finalizer |-> FALSE, ready |-> FALSE, reason |-> None,
     providerID |-> NoProviderID, cleanupStarted |-> FALSE]

NoNode == [exists |-> FALSE, providerID |-> NoProviderID]

\* The object a client holds after Get: the lease's validity and the age of the
\* cleanup-started-at stamp are functions of the clock, not of the copy.
Copy(hostObj) ==
    [hostObj EXCEPT !.startedAt = IF hostObj.startedAt = NoStamp THEN NoStamp ELSE <<0>>,
                    !.deletionAge = IF hostObj.deletionAge = NoStamp THEN NoStamp ELSE <<0>>,
                    !.lease = [hostObj.lease EXCEPT !.valid = FALSE]]

\* patch.Helper.Patch: the fields that differ between before and after are written.
PatchObj(server, before, after) ==
    [f \in DOMAIN server |-> IF before[f] # after[f] THEN after[f] ELSE server[f]]

\* A write that changes host h gives it a new resource version: every copy of h
\* read earlier is stale for a later Update.
Touch(mcf, h, changed) ==
    IF changed
    THEN [r \in Replicas |-> IF mcf[r].host = h THEN [mcf[r] EXCEPT !.fresh = FALSE] ELSE mcf[r]]
    ELSE mcf

\* Observer: the clock of a cleanup request starts when the annotation appears.
AgeAfter(h, old, new) ==
    IF new.cleanupAnn /\ ~old.cleanupAnn THEN [cleanupAge EXCEPT ![h] = <<0>>]
    ELSE IF ~new.cleanupAnn THEN [cleanupAge EXCEPT ![h] = NoStamp]
    ELSE cleanupAge

FirstOf(S) == IF S = {} THEN None ELSE InOrder(S, 1)[1]

\* FetchAttachedByoHost: the first listed host carrying the attached-machine label.
FetchAttachedByoHost(m) == FirstOf({h \in registered : byoHost[h].label = m})

\* reconcileDelete's fallback: the first host whose MachineRef.UID is the machine's.
FindByMachineRefUID(m) == FirstOf({h \in registered : byoHost[h].machineRef = m})

\* The deferred helper.Patch(byoMachine) of Reconcile: NotFound once the object is gone;
\* the finalizer added by reconcileNormal is written with the rest.
PatchMachine(m, ready, reason) ==
    IF byoMachine[m].state = "gone" THEN byoMachine
    ELSE [byoMachine EXCEPT ![m] =
            [state |-> @.state,
             finalizer |-> @.finalizer \/ @.state = "active",
             ready |-> @.ready \/ ready,
             reason |-> IF reason = "keep" THEN @.reason ELSE reason,
             providerID |-> @.providerID,
             cleanupStarted |-> @.cleanupStarted]]

\* exponentialBackoff + continue of attachByoHost's loop, or the loop's end.
NextAttempt(l) ==
    IF l.attempt + 1 < MaxRetries
    THEN [l EXCEPT !.pc = "select", !.attempt = @ + 1, !.host = None,
                   !.latestHost = FreeHost, !.fresh = FALSE]
    ELSE IdleMC

\* The state after construction: the hosts of regs registered and free, the
\* machines of machs created and not yet reconciled, nothing in flight.
InitProtocol(regs, machs, skip) ==
    /\ extraArgs = NoProviderID
    /\ byoHost = [h \in Hosts |-> FreeHost]
    /\ byoMachine = [m \in Machines |-> IF m \in machs THEN NewMachine
                                        ELSE [NewMachine EXCEPT !.state = "gone"]]
    /\ node = [h \in Hosts |-> NoNode]
    /\ mc = [r \in Replicas |-> IdleMC]
    /\ roundRobinIndex = [r \in Replicas |-> 0]
    /\ agent = [h \in Hosts |-> IdleAgent]
    /\ machineIDFile = [h \in Hosts |-> None]
    /\ registered = regs
    /\ SkipK8sInstallation = skip
    /\ cleanupAge = [h \in Hosts |-> NoStamp]

\* No bootstrap kubeconfig; one found or made is <<"published">>, <<"existing">>
\* or <<"minted", number of the token>>.
NoKubeconfig == <<>>

\* No TLS bootstrap secret (none assembled yet, or the error return).
NoSecret == [kubeconfig |-> NoKubeconfig, ca |-> None]

\* A kubeadm-mode Machine: no TLS bootstrap secret is ever assembled.
NoTLSBootstrap ==
    [configRef |-> "none", dataSecret |-> "none", restConfig |-> FALSE, mint |-> FALSE,
     bindings |-> 0, tokens |-> 0, secret |-> NoSecret]

\* A request of another signer, never handed to the approver.
NoCSR == [name |-> <<"csr-x">>, signer |-> "kubernetes.io/legacy-unknown",
          conditions |-> <<>>, reconciles |-> 0]

\* No install script is being executed: no pass of the retry loop made, none that
\* returned an error, the K8sComponentsInstallationSucceeded condition not set,
\* no reconcile returned.
NoCmdRun ==
    [cmd |-> [body |-> <<>>, pad |-> 0], pc |-> "idle", attempt |-> 0, executed |-> 0,
     errs |-> 0, installed |-> "unset", reconciles |-> 0, reterr |-> FALSE]

\* getCleanupTimeout has not been called.
NoTimeoutCalc ==
    [env |-> [set |-> FALSE, parses |-> FALSE, seconds |-> 0], cpu |-> <<>>, memory |-> <<>>,
     timeout |-> <<>>]

\* selectHostForClaim has not been called: no host listed, no cursor made.
NoSelection ==
    [hostsList |-> <<>>, requirements |-> FALSE, roundRobinIndex |-> <<>>,
     clusterName |-> "none", result |-> [kind |-> "none", host |-> 0], calls |-> 0]

\* No write_files entry is being decoded.
NoCodec ==
    [encoding |-> "", data |-> <<>>, content |-> <<>>, pc |-> "idle", err |-> FALSE,
     decoded |-> <<>>]

\* No claim is followed through its retry loop.
NoClaimLoop ==
    [joinMode |-> "kubeadm", pc |-> "idle", attempt |-> 0, host |-> None,
     roundRobinIndex |-> 0, lease |-> [h \in Hosts |-> "none"], bound |-> None,
     secret |-> FALSE, failures |-> 0, reconciles |-> 0]

\* No retry loop is followed: no attempt made, nothing waited for, the context
\* not cancelled.  left is what is left of a delay, in units of 100 ms.
NoWait ==
    [loop |-> "none", pc |-> "idle", attempt |-> 0, left |-> 0, cancelled |-> FALSE,
     err |-> "none"]

\* No BootstrapKubeconfig is reconciled.  The data of a status is <<number of
\* the token, API server>> of the kubeconfig it holds.
NoBootstrapKubeconfig ==
    [apiServer |-> "", ca |-> "", owner |-> FALSE, data |-> <<>>, created |-> 0,
     live |-> 0, event |-> FALSE, reconciles |-> 0]

InitCalcs ==
    /\ timeoutCalc = NoTimeoutCalc
    /\ selection = NoSelection
    /\ codec = NoCodec
    /\ claimLoop = NoClaimLoop
    /\ waits = NoWait
    /\ bootstrapKubeconfig = NoBootstrapKubeconfig

InitAside ==
    /\ tlsBootstrap = NoTLSBootstrap
    /\ csr = NoCSR
    /\ cmdRun = NoCmdRun
    /\ InitCalcs

InitWith(regs, machs, skip) == InitProtocol(regs, machs, skip) /\ InitAside

\* One free host, one machine.
Init == InitWith({"h1"}, {"m1"}, FALSE)

\* The cluster-api Machine controller deletes the ByoMachine (scale-down).
DeleteMachine(m) ==
    /\ byoMachine[m].state = "active"
    /\ byoMachine' = [byoMachine EXCEPT ![m].state = IF byoMachine[m].finalizer THEN "deleting" ELSE "gone"]
    /\ UNCHANGED <<byoHost, node, mc, roundRobinIndex, agent, machineIDFile, registered,
                   SkipK8sInstallation, extraArgs, aside, cleanupAge>>

\* common.GenerateProviderID: the prefix, then the host name.
ProviderIDPrefix == "byoh://"
generateProviderID(h) == <<ProviderIDPrefix, h>>

\* common.ValidateProviderID: "byoh://<hostname>" or "byoh://<hostname>/<suffix>".
validateProviderID(providerID, h) ==
    /\ Len(providerID) \in {2, 3}
    /\ providerID[1] = ProviderIDPrefix
    /\ providerID[2] = h

\* A controller that never sets the providerID of a Node.
NodeAfterUnset(h) == node

\* updateNodeProviderID / setNodeProviderID: an empty providerID is set; the Node
\* object after the call.
NodeAfter(h) ==
    IF node[h].exists /\ node[h].providerID = NoProviderID
    THEN [node EXCEPT ![h].providerID = generateProviderID(h)]
    ELSE node

\* The providerID setNodeProviderID returns for a Node it accepts: the Node's own
\* when it has one that validates, the generated one (which it patches) otherwise.
setNodeProviderID(h) ==
    IF node[h].providerID # NoProviderID THEN node[h].providerID ELSE generateProviderID(h)

\* The ByoMachine as reconcileNormal leaves it once a host is attached: waiting for
\* the Node, ready with a valid providerID, or the error of a foreign providerID.
MachineAfter(m, h) ==
    IF ~node[h].exists THEN PatchMachine(m, FALSE, "WaitingForNodeRef")
    ELSE IF node[h].providerID = NoProviderID \/ validateProviderID(node[h].providerID, h)
    THEN [o \in Machines |->
            IF o = m /\ byoMachine[m].state # "gone"
            THEN [PatchMachine(m, TRUE, "Ready")[m] EXCEPT !.providerID = setNodeProviderID(h)]
            ELSE byoMachine[o]]
    ELSE PatchMachine(m, FALSE, "keep")

\* reconcileDelete: with no host found the finalizer goes and the object with it;
\* otherwise markHostForCleanup sets the cleanup annotation and clears MachineRef
\* in one patch, Status.CleanupStarted is set on the machine, and the machine
\* waits.  A host that is itself being deleted is
\* not marked: the machine waits while the host still has its MachineRef and its
\* deletion is no older than hostCleanupTimeout, then the finalizer goes.
markHostForCleanup(hostObj) == [hostObj EXCEPT !.cleanupAnn = TRUE, !.machineRef = None]

\* hostCleanupTimeout of the ByoMachine controller: 5 minutes, the default cleanup
\* timeout of the ByoHost controller.
hostCleanupTimeout == TimeoutTicks

WaitsForDeletingHost(hostObj) ==
    /\ hostObj.machineRef # None
    /\ ~(hostObj.deletionAge[1] > hostCleanupTimeout)

MCDelete(r, m) ==
    /\ mc[r].pc = "idle"
    /\ byoMachine[m].state = "deleting"
    /\ LET attached == FetchAttachedByoHost(m)
           found == IF attached # None THEN attached ELSE FindByMachineRefUID(m)
       IN IF found = None
          THEN /\ byoMachine' = [byoMachine EXCEPT ![m].state = "gone", ![m].finalizer = FALSE]
               /\ UNCHANGED <<byoHost, mc, cleanupAge>>
          ELSE IF byoHost[found].deletionAge # NoStamp
          THEN /\ byoMachine' = IF WaitsForDeletingHost(byoHost[found]) THEN byoMachine
                                ELSE [byoMachine EXCEPT ![m].state = "gone", ![m].finalizer = FALSE]
               /\ UNCHANGED <<byoHost, mc, cleanupAge>>
          ELSE LET new == markHostForCleanup(byoHost[found])
               IN /\ byoHost' = [byoHost EXCEPT ![found] = new]
                  /\ mc' = Touch(mc, found, new # byoHost[found])
                  /\ cleanupAge' = AgeAfter(found, byoHost[found], new)
                  /\ byoMachine' = [byoMachine EXCEPT ![m].cleanupStarted = TRUE]
    /\ UNCHANGED <<node, roundRobinIndex, agent, machineIDFile, registered,
                   SkipK8sInstallation, extraArgs, aside>>

\* reconcileNormal with a host already attached: relay the installation secret
\* (setInstallationSecretForByoHost), then updateNodeProviderID.
MCAttached(r, m) ==
    /\ mc[r].pc = "idle"
    /\ byoMachine[m].state = "active"
    /\ FetchAttachedByoHost(m) # None
    /\ LET h == FetchAttachedByoHost(m)
           new == [byoHost[h] EXCEPT !.installationSecret = TRUE]
       IN /\ byoHost' = [byoHost EXCEPT ![h] = new]
          /\ mc' = Touch(mc, h, new # byoHost[h])
          /\ node' = NodeAfter(h)
          /\ byoMachine' = MachineAfter(m, h)
    /\ UNCHANGED <<roundRobinIndex, agent, machineIDFile, registered, SkipK8sInstallation, extraArgs, aside,
                   cleanupAge>>

\* reconcileNormal with no host attached: attachByoHost lists the hosts without the
\* cluster-name label; an empty list is BYOHostsUnavailable.
MCList(r, m) ==
    /\ mc[r].pc = "idle"
    /\ byoMachine[m].state = "active"
    /\ FetchAttachedByoHost(m) = None
    /\ LET listed == {h \in registered : byoHost[h].label = None}
       IN IF listed = {}
          THEN /\ byoMachine' = PatchMachine(m, FALSE, "BYOHostsUnavailable")
               /\ mc' = mc
          ELSE /\ mc' = [mc EXCEPT ![r] = [IdleMC EXCEPT !.pc = "select", !.machine = m,
                              !.avail = {h \in listed : IsAvailable(byoHost[h])}]]
               /\ UNCHANGED byoMachine
    /\ UNCHANGED <<byoHost, node, roundRobinIndex, agent, machineIDFile, registered,
                   SkipK8sInstallation, extraArgs, aside, cleanupAge>>

\* One pass of attachByoHost's loop up to the lease: selectHostForClaim over the
\* listed copies (all hosts declare the default priority and the machines no
\* capacity requirements), the re-fetch of the selected host and the check of an
\* existing MachineRef: a reference to a Machine that is gone is cleared by patch
\* and the host fetched again; a reference to a live Machine skips the host; a
\* reference to a Machine being deleted does not.
MCSelect(r) ==
    /\ mc[r].pc = "select"
    /\ LET l == mc[r]
           m == l.machine
           highPriorityHosts == InOrder(l.avail, 1)
           currentIndex == roundRobinIndex[r]
       IN IF l.avail = {}
          THEN \* "no host selected": the reconcile returns its error
               /\ mc' = [mc EXCEPT ![r] = IdleMC]
               /\ byoMachine' = PatchMachine(m, FALSE, "keep")
               /\ UNCHANGED <<roundRobinIndex, byoHost>>
          ELSE IF currentIndex >= Len(highPriorityHosts)
          THEN \* index out of range: the reconcile panics; the cursor survives a
               \* recovered panic and is lost with a restarted process
               /\ mc' = [mc EXCEPT ![r] = IdleMC]
               /\ byoMachine' = PatchMachine(m, FALSE, "keep")
               /\ \E c \in {currentIndex, 0} : roundRobinIndex' = [roundRobinIndex EXCEPT ![r] = c]
               /\ UNCHANGED byoHost
          ELSE LET h == highPriorityHosts[currentIndex + 1]
                   ref == byoHost[h].machineRef
                   stale == ref # None /\ byoMachine[ref].state = "gone"
                   new == IF stale THEN [byoHost[h] EXCEPT !.machineRef = None] ELSE byoHost[h]
                   got == [l EXCEPT !.pc = "lease", !.host = h, !.latestHost = Copy(new),
                                    !.fresh = TRUE]
               IN /\ roundRobinIndex' = [roundRobinIndex EXCEPT
                                           ![r] = (currentIndex + 1) % Len(highPriorityHosts)]
                  /\ byoHost' = [byoHost EXCEPT ![h] = new]
                  /\ mc' = [Touch(mc, h, stale) EXCEPT
                              ![r] = IF ref # None /\ byoMachine[ref].state = "active"
                                     THEN NextAttempt(l) ELSE got]
                  /\ byoMachine' = IF mc'[r].pc = "idle" THEN PatchMachine(m, FALSE, "keep")
                                   ELSE byoMachine
    /\ UNCHANGED <<node, agent, machineIDFile, registered, SkipK8sInstallation, extraArgs, aside, cleanupAge>>

\* A lease attempt that takes any lease annotation for a live lease.
MCLeaseNoExpiry(r) ==
    /\ mc[r].pc = "lease"
    /\ LET l == mc[r]
           h == l.host
           acquired == l.fresh /\ byoHost[h].lease.holder = None
           new == [byoHost[h] EXCEPT !.lease = [holder |-> l.machine, valid |-> TRUE]]
       IN IF acquired
          THEN /\ byoHost' = [byoHost EXCEPT ![h] = new]
               /\ mc' = [Touch(mc, h, TRUE) EXCEPT
                           ![r] = [l EXCEPT !.pc = "claim", !.latestHost = Copy(new), !.fresh = FALSE]]
               /\ UNCHANGED byoMachine
          ELSE /\ mc' = [mc EXCEPT ![r] = NextAttempt(l)]
               /\ byoMachine' = IF mc'[r].pc = "idle" THEN PatchMachine(l.machine, FALSE, "keep")
                                ELSE byoMachine
               /\ UNCHANGED byoHost
    /\ UNCHANGED <<node, roundRobinIndex, agent, machineIDFile, registered,
                   SkipK8sInstallation, extraArgs, aside, cleanupAge>>

\* tryAcquireLease: refuse while the lease on the copy is within its 30 s; otherwise
\* Update the host with the new lease, which succeeds only at the copy's resource version.
MCLease(r) ==
    /\ mc[r].pc = "lease"
    /\ LET l == mc[r]
           h == l.host
           acquired == l.fresh /\ ~(byoHost[h].lease.holder # None /\ byoHost[h].lease.valid)
           new == [byoHost[h] EXCEPT !.lease = [holder |-> l.machine, valid |-> TRUE]]
       IN IF acquired
          THEN /\ byoHost' = [byoHost EXCEPT ![h] = new]
               /\ mc' = [Touch(mc, h, TRUE) EXCEPT
                           ![r] = [l EXCEPT !.pc = "claim", !.latestHost = Copy(new), !.fresh = FALSE]]
               /\ UNCHANGED byoMachine
          ELSE /\ mc' = [mc EXCEPT ![r] = NextAttempt(l)]
               /\ byoMachine' = IF mc'[r].pc = "idle" THEN PatchMachine(l.machine, FALSE, "keep")
                                ELSE byoMachine
               /\ UNCHANGED byoHost
    /\ UNCHANGED <<node, roundRobinIndex, agent, machineIDFile, registered,
                   SkipK8sInstallation, extraArgs, aside, cleanupAge>>

\* A claim that sets MachineRef and the bootstrap secret, but no label.
ClaimedWithoutLabel(hostObj, m) ==
    [hostObj EXCEPT !.machineRef = m, !.bootstrapSecret = m]

\* attachByoHost under the lease: MachineRef, the cluster-name and attached-machine
\* labels and the bootstrap secret are set on the copy and patched.
Claimed(hostObj, m) ==
    [hostObj EXCEPT !.machineRef = m, !.label = m, !.bootstrapSecret = m]

MCClaim(r) ==
    /\ mc[r].pc = "claim"
    /\ LET l == mc[r]
           h == l.host
           new == PatchObj(byoHost[h], l.latestHost, Claimed(l.latestHost, l.machine))
       IN /\ byoHost' = [byoHost EXCEPT ![h] = new]
          /\ mc' = [Touch(mc, h, new # byoHost[h]) EXCEPT
                      ![r] = [l EXCEPT !.pc = "release", !.latestHost = Copy(new)]]
    /\ UNCHANGED <<byoMachine, node, roundRobinIndex, agent, machineIDFile, registered,
                   SkipK8sInstallation, extraArgs, aside, cleanupAge>>

\* releaseLease: the lease annotation the copy carries is deleted by patch.
Released(server, copy) ==
    IF copy.lease.holder = None THEN server ELSE [server EXCEPT !.lease = NoLease]

\* The claiming patch fails (an API error): release the lease, back off, try again.
MCClaimFail(r) ==
    /\ mc[r].pc = "claim"
    /\ LET l == mc[r]
           h == l.host
           new == Released(byoHost[h], l.latestHost)
       IN /\ byoHost' = [byoHost EXCEPT ![h] = new]
          /\ mc' = [Touch(mc, h, new # byoHost[h]) EXCEPT ![r] = NextAttempt(l)]
          /\ byoMachine' = IF mc'[r].pc = "idle" THEN PatchMachine(l.machine, FALSE, "keep")
                           ELSE byoMachine
    /\ UNCHANGED <<node, roundRobinIndex, agent, machineIDFile, registered,
                   SkipK8sInstallation, extraArgs, aside, cleanupAge>>

\* The host is attached: release the lease; reconcileNormal goes on with this host
\* (installation secret, updateNodeProviderID).
MCRelease(r) ==
    /\ mc[r].pc = "release"
    /\ LET l == mc[r]
           h == l.host
           new == [Released(byoHost[h], l.latestHost) EXCEPT !.installationSecret = TRUE]
       IN /\ byoHost' = [byoHost EXCEPT ![h] = new]
          /\ mc' = [Touch(mc, h, new # byoHost[h]) EXCEPT ![r] = IdleMC]
          /\ node' = NodeAfter(h)
          /\ byoMachine' = MachineAfter(l.machine, h)
    /\ UNCHANGED <<roundRobinIndex, agent, machineIDFile, registered, SkipK8sInstallation, extraArgs, aside,
                   cleanupAge>>

(***************************************************************************)
(* Host agent (HostReconciler): Get, the work on the host, the deferred    *)
(* Patch.                                                                  *)
(***************************************************************************)

AgentSnap(hostObj) == [Copy(hostObj) EXCEPT !.lease = NoLease]

\* The branch HostReconciler.Reconcile / reconcileNormal takes on the object it reads.
AgentPlan(h) ==
    LET s == byoHost[h] IN
    IF s.cleanupAnn THEN "cleanup"
    ELSE IF s.deletionAge # NoStamp THEN "cleanup"
    ELSE IF s.machineRef = None
         THEN IF s.bootstrapped \/ s.installed THEN "cleanup" ELSE "none"
    ELSE IF s.bootstrapSecret = None THEN "unbootstrap"
    ELSE IF machineIDFile[h] # None /\ machineIDFile[h] # s.machineRef THEN "cleanup"
    ELSE IF s.bootstrapped THEN "none"
    ELSE IF SkipK8sInstallation \/ s.installed THEN "bootstrap"
    ELSE IF s.installationSecret THEN "install"
    ELSE "none"

\* hostCleanUp's changes to the object: conditions, then removeAnnotations.
CleanedUp(s) ==
    [s EXCEPT !.machineRef = None, !.bootstrapSecret = None, !.label = None,
              !.installationSecret = FALSE, !.cleanupAnn = FALSE, !.startedAt = NoStamp,
              !.installed = FALSE, !.bootstrapped = FALSE]

\* A claimed host without bootstrap secret: NodeBootstrapped is marked False and
\* patched at once.
AgentIdle(h) ==
    /\ h \in registered
    /\ agent[h].pc = "idle"
    /\ AgentPlan(h) = "unbootstrap"
    /\ byoHost[h].bootstrapped
    /\ byoHost' = [byoHost EXCEPT ![h].bootstrapped = FALSE]
    /\ mc' = Touch(mc, h, TRUE)
    /\ UNCHANGED <<byoMachine, node, roundRobinIndex, agent, machineIDFile, registered,
                   SkipK8sInstallation, extraArgs, aside, cleanupAge>>

\* Get, then executeInstallerController: the install script runs.
AgentInstall(h) ==
    /\ h \in registered
    /\ agent[h].pc = "idle"
    /\ AgentPlan(h) = "install"
    /\ agent' = [agent EXCEPT ![h] = [pc |-> "installed", snap |-> AgentSnap(byoHost[h])]]
    /\ UNCHANGED <<byoHost, byoMachine, node, mc, roundRobinIndex, machineIDFile, registered,
                   SkipK8sInstallation, extraArgs, aside, cleanupAge>>

\* A provider-id of the form the documentation suggests for a join configuration:
\* byoh://<hostname>/<namespace>/<name>.
SuffixedProviderID(h) == <<ProviderIDPrefix, h, "default/m">>

\* bootstrapK8sNode, after the install or (installed already, or installation
\* skipped) right after Get: kubelet joins and registers the Node, with the
\* provider-id of the join configuration when it has one (the script executor adds
\* its own only where there is none); the agent patches the Node's providerID
\* (which may fail) and persists the machine id.
AgentBootstrap(h) ==
    /\ h \in registered
    /\ \/ agent[h].pc = "installed"
       \/ agent[h].pc = "idle" /\ AgentPlan(h) = "bootstrap"
    /\ LET s == IF agent[h].pc = "idle" THEN AgentSnap(byoHost[h]) ELSE agent[h].snap
       IN /\ \E patched \in BOOLEAN :
                node' = [node EXCEPT ![h] = [exists |-> TRUE,
                             providerID |-> IF patched THEN generateProviderID(h)
                                            ELSE IF extraArgs # NoProviderID
                                            THEN extraArgs
                                            ELSE node[h].providerID]]
          /\ machineIDFile' = [machineIDFile EXCEPT ![h] = s.machineRef]
          /\ agent' = [agent EXCEPT ![h] = [pc |-> IF agent[h].pc = "installed"
                                                   THEN "bootstrapped" ELSE "bootstrappedOnly",
                                            snap |-> s]]
    /\ UNCHANGED <<byoHost, byoMachine, mc, roundRobinIndex, registered,
                   SkipK8sInstallation, extraArgs, aside, cleanupAge>>

\* Get, then hostCleanUp on the host: resetNode (with its Node deletion) only when
\* the ComponentsInstalled condition is True; the machine-id file is removed.
AgentCleanup(h) ==
    /\ h \in registered
    /\ agent[h].pc = "idle"
    /\ AgentPlan(h) = "cleanup"
    /\ node' = IF byoHost[h].installed THEN [node EXCEPT ![h] = NoNode] ELSE node
    /\ machineIDFile' = [machineIDFile EXCEPT ![h] = None]
    /\ agent' = [agent EXCEPT ![h] = [pc |-> "cleaned", snap |-> AgentSnap(byoHost[h])]]
    /\ UNCHANGED <<byoHost, byoMachine, mc, roundRobinIndex, registered,
                   SkipK8sInstallation, extraArgs, aside, cleanupAge>>

\* The object as the reconcile leaves it, handed to the deferred Patch.
AgentResult(h) ==
    LET s == agent[h].snap IN
    CASE agent[h].pc = "cleaned" -> CleanedUp(s)
      [] agent[h].pc = "bootstrapped" -> [s EXCEPT !.installed = TRUE, !.bootstrapped = TRUE]
      [] agent[h].pc = "bootstrappedOnly" -> [s EXCEPT !.bootstrapped = TRUE]
      [] OTHER -> s

AgentPatch(h) ==
    /\ agent[h].pc \in {"cleaned", "bootstrapped", "bootstrappedOnly"}
    /\ LET new == PatchObj(byoHost[h], agent[h].snap, AgentResult(h))
       IN /\ byoHost' = [byoHost EXCEPT ![h] = new]
          /\ mc' = Touch(mc, h, new # byoHost[h])
          /\ cleanupAge' = AgeAfter(h, byoHost[h], new)
    /\ agent' = [agent EXCEPT ![h] = IdleAgent]
    /\ UNCHANGED <<byoMachine, node, roundRobinIndex, machineIDFile, registered,
                   SkipK8sInstallation, extraArgs, aside>>

(***************************************************************************)
(* The cleanup timeout of a host (getCleanupTimeout), computed in the      *)
(* int64 nanoseconds of time.Duration.  An int64 is its 8 bytes, least     *)
(* significant first, in two's complement; arithmetic wraps as Go's does.  *)
(***************************************************************************)

\* The 8 bytes of a natural number.
RECURSIVE BytesOf(_, _)
BytesOf(n, k) == IF k = 0 THEN <<>> ELSE <<n % 256>> \o BytesOf(n \div 256, k - 1)

Int64(n) == BytesOf(n, 8)

RECURSIVE AddBytes(_, _, _, _)
AddBytes(a, b, i, carry) ==
    IF i > 8 THEN <<>>
    ELSE LET t == a[i] + b[i] + carry
         IN <<t % 256>> \o AddBytes(a, b, i + 1, t \div 256)

\* a + b on int64
Add64(a, b) == AddBytes(a, b, 1, 0)

RECURSIVE MulByte(_, _, _, _)
MulByte(b, d, i, carry) ==
    IF i > 8 THEN <<>>
    ELSE LET t == b[i] * d + carry
         IN <<t % 256>> \o MulByte(b, d, i + 1, t \div 256)

ShiftBytes(x, sh) == [i \in 1..8 |-> IF i <= sh THEN 0 ELSE x[i - sh]]

RECURSIVE MulFrom(_, _, _)
MulFrom(a, b, i) ==
    IF i > 8 THEN Int64(0)
    ELSE Add64(ShiftBytes(MulByte(b, a[i], 1, 0), i - 1), MulFrom(a, b, i + 1))

\* a * b on int64
Mul64(a, b) == MulFrom(a, b, 1)

IsNegative(x) == x[8] >= 128

RECURSIVE LessFrom(_, _, _)
LessFrom(a, b, i) ==
    IF i = 0 THEN FALSE
    ELSE IF a[i] # b[i] THEN a[i] < b[i]
    ELSE LessFrom(a, b, i - 1)

\* a < b on int64
Less64(a, b) ==
    IF IsNegative(a) # IsNegative(b) THEN IsNegative(a) ELSE LessFrom(a, b, 8)

\* time.Second, time.Minute, and a number of seconds as a time.Duration.
Second == Int64(1000000000)
Minute == Mul64(Int64(60), Second)
Seconds(n) == Mul64(Int64(n), Second)

defaultHostCleanupTimeout == Mul64(Int64(5), Minute)
minHostCleanupTimeout == Mul64(Int64(2), Minute)
maxHostCleanupTimeout == Mul64(Int64(15), Minute)

\* BYOH_HOST_CLEANUP_TIMEOUT: unset (or empty), a string time.ParseDuration
\* refuses, or a duration, here of whole seconds.
NoEnv == [set |-> FALSE, parses |-> FALSE, seconds |-> 0]
EnvSeconds == {60, 119, 120, 300, 900, 901, 1000}
Envs ==
    {NoEnv, [set |-> TRUE, parses |-> FALSE, seconds |-> 0]}
       \cup {[set |-> TRUE, parses |-> TRUE, seconds |-> n] : n \in EnvSeconds}

\* Spec.Capacity[cpu] as cpu.Value(), the whole CPUs declared, and
\* Spec.Capacity[memory] in GiB; <<>> where the host declares none.
CPUs == {<<>>} \cup {<<n>> : n \in {0, 8, 9, 16, 28, 29, 128, 307445732, 307445733}}
Memories == {<<>>} \cup {<<n>> : n \in {8, 16, 17, 24, 32, 96, 104, 1229782912, 1229782920}}

\* The environment override is used: it is set, parses and lies inside
\* [minHostCleanupTimeout, maxHostCleanupTimeout].
EnvInBounds(env) ==
    /\ env.set
    /\ env.parses
    /\ ~Less64(Seconds(env.seconds), minHostCleanupTimeout)
    /\ ~Less64(maxHostCleanupTimeout, Seconds(env.seconds))

\* getCleanupTimeout of a host with the given capacity.
getCleanupTimeoutOf(env, cpu, memory) ==
    IF EnvInBounds(env) THEN Seconds(env.seconds)
    ELSE LET base == defaultHostCleanupTimeout
             withCPU ==
                 IF cpu # <<>> /\ cpu[1] > 8
                 THEN Add64(base, Mul64(Mul64(Int64(cpu[1] - 8), Int64(30)), Second))
                 ELSE base
             timeout ==
                 IF memory # <<>> /\ memory[1] > 16
                 THEN Add64(withCPU, Mul64(Int64((memory[1] - 16) \div 8), Minute))
                 ELSE withCPU
         IN IF Less64(timeout, minHostCleanupTimeout) THEN minHostCleanupTimeout
            ELSE IF Less64(maxHostCleanupTimeout, timeout) THEN maxHostCleanupTimeout
            ELSE timeout

\* The Host Controller asks for the timeout of a host.
GetCleanupTimeout ==
    /\ timeoutCalc.timeout = <<>>
    /\ timeoutCalc' =
          [timeoutCalc EXCEPT
              !.timeout = getCleanupTimeoutOf(timeoutCalc.env, timeoutCalc.cpu,
                                              timeoutCalc.memory)]
    /\ UNCHANGED <<protocol, tlsBootstrap, csr, cmdRun, selection, codec, claimLoop, waits, bootstrapKubeconfig>>

InitCleanupTimeout ==
    /\ InitProtocol({}, {}, FALSE)
    /\ tlsBootstrap = NoTLSBootstrap
    /\ csr = NoCSR
    /\ cmdRun = NoCmdRun
    /\ selection = NoSelection
    /\ codec = NoCodec
    /\ claimLoop = NoClaimLoop
    /\ waits = NoWait
    /\ bootstrapKubeconfig = NoBootstrapKubeconfig
    /\ \E env \in Envs, cpu \in CPUs, memory \in Memories :
          timeoutCalc = [env |-> env, cpu |-> cpu, memory |-> memory, timeout |-> <<>>]

NextCleanupTimeout == GetCleanupTimeout

SpecCleanupTimeout == InitCleanupTimeout /\ [][NextCleanupTimeout]_vars

(***************************************************************************)
(* ByoHost controller (ByoHostReconciler.Reconcile): the cleanup timeout   *)
(* and the forced release.                                                 *)
(***************************************************************************)

\* A cleanup timeout in ticks of the clock, defaultHostCleanupTimeout being
\* TimeoutTicks ticks.
TicksOf(d) == CHOOSE t \in 0..(3 * TimeoutTicks) : Seconds(t * (300 \div TimeoutTicks)) = d

\* The CPUs of a host whose cleanup timeout is twice the default.
LargeHostCPUs == <<18>>

\* getCleanupTimeout, with no environment override, of the hosts of the model:
\* those that declare no capacity and those of LargeHostCPUs.
CleanupTimeoutTicks ==
    [cpu \in {<<>>, LargeHostCPUs} |-> TicksOf(getCleanupTimeoutOf(NoEnv, cpu, <<>>))]

getCleanupTimeout(h) == CleanupTimeoutTicks[byoHost[h].cpu]

\* A stamp that never counts as expired (as one that does not parse).
shouldForceCleanupUnparsed(h) == FALSE

\* On a host being deleted: time since the DeletionTimestamp > cleanupTimeout;
\* otherwise elapsed > cleanupTimeout on the cleanup-started-at stamp.
shouldForceCleanup(h) ==
    IF byoHost[h].deletionAge # NoStamp
    THEN byoHost[h].deletionAge[1] > getCleanupTimeout(h)
    ELSE byoHost[h].startedAt # NoStamp /\ byoHost[h].startedAt[1] > getCleanupTimeout(h)

\* The reconcile has something to write: the start stamp (on a host that is not
\* being deleted), or the forced release.  Without the cleanup annotation the
\* reconcile returns at once.
HCHasWork(h) ==
    /\ h \in registered
    /\ byoHost[h].cleanupAnn
    /\ \/ byoHost[h].deletionAge = NoStamp /\ byoHost[h].startedAt = NoStamp
       \/ shouldForceCleanup(h)

\* The audit entry of a forced release is recorded in the force-cleanup-audit
\* annotation of the object in memory.
Audited(hostObj) == [hostObj EXCEPT !.auditAnn = TRUE]

\* The forced release on the object in memory, in the order of the code: MachineRef
\* cleared, the audit annotation set, NodeBootstrapped marked True, then the
\* cleanup, started-at and audit annotations deleted.  The deferred Patch writes
\* the result.
ForceReleased(hostObj) ==
    [Audited([hostObj EXCEPT !.machineRef = None]) EXCEPT
        !.bootstrapped = TRUE, !.cleanupAnn = FALSE, !.startedAt = NoStamp,
        !.auditAnn = FALSE]

HCReconcile(h) ==
    /\ HCHasWork(h)
    /\ IF shouldForceCleanup(h)
       THEN /\ byoHost' = [byoHost EXCEPT ![h] = ForceReleased(@)]
            /\ node' = [node EXCEPT ![h] = NoNode]
       ELSE /\ byoHost' = [byoHost EXCEPT ![h].startedAt = <<0>>]
            /\ UNCHANGED node
    /\ mc' = Touch(mc, h, TRUE)
    /\ cleanupAge' = AgeAfter(h, byoHost[h], byoHost'[h])
    /\ UNCHANGED <<byoMachine, roundRobinIndex, agent, machineIDFile, registered,
                   SkipK8sInstallation, extraArgs, aside>>

\* checkAndCleanupAfterForce: the object the registering agent leaves: with the
\* audit annotation present, the post-force cleanup runs and the annotation is
\* deleted; without it nothing changes.
checkAndCleanupAfterForce(hostObj) ==
    IF hostObj.auditAnn THEN [hostObj EXCEPT !.auditAnn = FALSE] ELSE hostObj

\* The agent process of a registered host starts again (HostRegistrar.Register
\* finds the ByoHost): the reconcile that was in flight is lost with the old
\* process, what it did on the host stays.
AgentRestart(h) ==
    /\ h \in registered
    /\ agent[h].pc # "idle"
    /\ agent' = [agent EXCEPT ![h] = IdleAgent]
    /\ byoHost' = [byoHost EXCEPT ![h] = checkAndCleanupAfterForce(@)]
    /\ mc' = Touch(mc, h, byoHost'[h] # byoHost[h])
    /\ UNCHANGED <<byoMachine, node, roundRobinIndex, machineIDFile, registered,
                   SkipK8sInstallation, extraArgs, aside, cleanupAge>>

\* The agent process of h stops (the host goes down, the process is killed): the
\* reconcile in flight never reaches its deferred Patch, and nothing reconciles
\* the host until the process is started again.
AgentCrash(h) ==
    /\ h \in registered
    /\ agent[h].pc # "down"
    /\ agent' = [agent EXCEPT ![h] = [pc |-> "down", snap |-> FreeHost]]
    /\ UNCHANGED <<byoHost, byoMachine, node, mc, roundRobinIndex, machineIDFile, registered,
                   SkipK8sInstallation, extraArgs, aside, cleanupAge>>

(***************************************************************************)
(* Time.  One tick is longer than the 30 s lease.                          *)
(***************************************************************************)

Expired(hostObj) == [hostObj EXCEPT !.lease.valid = FALSE]

\* HostLeaseTimeoutSeconds pass since the lease on h was acquired.
LeaseExpire(h) ==
    /\ byoHost[h].lease.valid
    /\ byoHost' = [byoHost EXCEPT ![h] = Expired(@)]
    /\ UNCHANGED <<byoMachine, node, mc, roundRobinIndex, agent, machineIDFile, registered,
                   SkipK8sInstallation, extraArgs, aside, cleanupAge>>

Older(age, cap) == IF age = NoStamp THEN NoStamp ELSE <<Min(age[1] + 1, cap)>>

\* RequeueAfter of a ByoHost reconcile that waits for the agent: the cleanup timeout.
RequeueAfter(h) == getCleanupTimeout(h)

\* Ticks after which "elapsed > d" is true of an interval that started in this tick.
Exceeds(d) == d + 1

\* The longest a cleanup request is followed: the timeout and one requeue interval.
MaxAge(h) == Exceeds(getCleanupTimeout(h)) + Exceeds(RequeueAfter(h))

\* One tick of the clock.  Ages are counted up to the first value past the bound
\* they are compared with; every lease is older than its 30 s afterwards.
Tick ==
    /\ \E h \in Hosts :
          \/ cleanupAge[h] # NoStamp /\ cleanupAge[h][1] <= MaxAge(h)
          \/ byoHost[h].deletionAge # NoStamp /\ byoHost[h].deletionAge[1] <= MaxAge(h)
    /\ byoHost' = [h \in Hosts |->
                     [Expired(byoHost[h]) EXCEPT
                         !.startedAt = Older(@, Exceeds(getCleanupTimeout(h))),
                         !.deletionAge = Older(@, MaxAge(h) + 1)]]
    /\ cleanupAge' = [h \in Hosts |-> Older(cleanupAge[h], MaxAge(h) + 1)]
    /\ UNCHANGED <<byoMachine, node, mc, roundRobinIndex, agent, machineIDFile, registered,
                   SkipK8sInstallation, extraArgs, aside>>

\* The ByoMachine controller's replicas, with the deletions and lease expiries
\* they race against.
MachineControllers ==
    \/ \E m \in Machines : DeleteMachine(m)
    \/ \E r \in Replicas, m \in Machines : MCDelete(r, m)
    \/ \E r \in Replicas, m \in Machines : MCAttached(r, m)
    \/ \E r \in Replicas, m \in Machines : MCList(r, m)
    \/ \E r \in Replicas : MCSelect(r)
    \/ \E r \in Replicas : MCLease(r)
    \/ \E r \in Replicas : MCClaim(r)
    \/ \E r \in Replicas : MCClaimFail(r)
    \/ \E r \in Replicas : MCRelease(r)
    \/ \E h \in Hosts : LeaseExpire(h)

HostController ==
    \/ \E h \in Hosts : HCReconcile(h)
    \/ Tick

Agents ==
    \/ \E h \in Hosts : AgentIdle(h)
    \/ \E h \in Hosts : AgentInstall(h)
    \/ \E h \in Hosts : AgentBootstrap(h)
    \/ \E h \in Hosts : AgentCleanup(h)
    \/ \E h \in Hosts : AgentPatch(h)

Next == MachineControllers \/ HostController \/ Agents

\* The whole system around one host and one machine.
Spec == Init /\ [][Next]_vars

\* Two machines contending for one host; no agent runs on the host.
InitContend == InitWith({"h1"}, Machines, FALSE)
NextContend == MachineControllers \/ HostController
SpecContend == InitContend /\ [][NextContend]_vars

\* One machine, two free hosts; no agent runs on the hosts.
InitTwoHosts == InitWith(Hosts, {"m1"}, FALSE)
SpecTwoHosts == InitTwoHosts /\ [][NextContend]_vars

\* The controller replicas alone: every write to a host is a replica's.
SpecControllers == InitContend /\ [][MachineControllers]_vars

\* Concurrent claim on one host: replica r1 reconciles m1 while replica r2
\* reconciles m2; nothing is deleted.  Reconciles are requeued for ever and a
\* reconcile in flight goes on; the claiming patch does not fail for ever.
Reconciles == [r1 |-> "m1", r2 |-> "m2"]

NextConcurrentClaim ==
    \/ \E r \in Replicas : MCAttached(r, Reconciles[r])
    \/ \E r \in Replicas : MCList(r, Reconciles[r])
    \/ \E r \in Replicas : MCSelect(r)
    \/ \E r \in Replicas : MCLease(r)
    \/ \E r \in Replicas : MCClaim(r)
    \/ \E r \in Replicas : MCClaimFail(r)
    \/ \E r \in Replicas : MCRelease(r)
    \/ \E h \in Hosts : LeaseExpire(h)

FairConcurrentClaim ==
    \A r \in Replicas :
        /\ WF_vars(MCAttached(r, Reconciles[r]))
        /\ WF_vars(MCList(r, Reconciles[r]))
        /\ WF_vars(MCSelect(r))
        /\ WF_vars(MCLease(r))
        /\ SF_vars(MCClaim(r))
        /\ WF_vars(MCRelease(r))

SpecConcurrentClaim == InitContend /\ [][NextConcurrentClaim]_vars /\ FairConcurrentClaim

\* The controller process of replica r dies between tryAcquireLease and the
\* binding patch: its lease stays on the host and nothing of the replica runs
\* any more.
MCCrash(r) ==
    /\ mc[r].pc = "claim"
    /\ mc' = [mc EXCEPT ![r] = [IdleMC EXCEPT !.pc = "crashed"]]
    /\ UNCHANGED <<byoHost, byoMachine, node, roundRobinIndex, agent, machineIDFile,
                   registered, SkipK8sInstallation, extraArgs, aside, cleanupAge>>

\* A lease left behind: replica r1 claims for m1 and may die holding the lease
\* of h1; replica r2 claims for m2, its reconcile requeued for ever; the clock
\* runs, so every lease gets older than its 30 s.
NextCrashedLease ==
    \/ MCList("r1", "m1")
    \/ MCSelect("r1")
    \/ MCLease("r1")
    \/ MCCrash("r1")
    \/ MCAttached("r2", "m2")
    \/ MCList("r2", "m2")
    \/ MCSelect("r2")
    \/ MCLease("r2")
    \/ MCClaim("r2")
    \/ MCClaimFail("r2")
    \/ MCRelease("r2")
    \/ \E h \in Hosts : LeaseExpire(h)

FairCrashedLease ==
    /\ WF_vars(MCAttached("r2", "m2"))
    /\ WF_vars(MCList("r2", "m2"))
    /\ WF_vars(MCSelect("r2"))
    /\ WF_vars(MCLease("r2"))
    /\ SF_vars(MCClaim("r2"))
    /\ WF_vars(MCRelease("r2"))
    /\ \A h \in Hosts : WF_vars(LeaseExpire(h))

SpecCrashedLease == InitContend /\ [][NextCrashedLease]_vars /\ FairCrashedLease

\* Timed runs: the ByoHost controller is running, so a reconcile that has
\* something to write (a watch event or its requeue timer fired) happens before
\* the clock's next tick.
TimedTick ==
    /\ \A h \in Hosts : ~HCHasWork(h)
    /\ Tick

NextTimed ==
    \/ MachineControllers
    \/ Agents
    \/ \E h \in Hosts : HCReconcile(h)
    \/ TimedTick

SpecTimed == Init /\ [][NextTimed]_vars

\* Timed runs in which the agent process may crash and start again.
NextRecover ==
    \/ NextTimed
    \/ \E h \in Hosts : AgentRestart(h)

SpecRecover == Init /\ [][NextRecover]_vars

\* A ByoHost is deleted while another controller's finalizer holds the object: it
\* gets its DeletionTimestamp and stays.
DeleteHost(h) ==
    /\ h \in registered
    /\ byoHost[h].deletionAge = NoStamp
    /\ byoHost' = [byoHost EXCEPT ![h].deletionAge = <<0>>]
    /\ mc' = Touch(mc, h, TRUE)
    /\ UNCHANGED <<byoMachine, node, roundRobinIndex, agent, machineIDFile, registered,
                   SkipK8sInstallation, extraArgs, aside, cleanupAge>>

\* Hosts may be deleted; no agent step is taken.
NextHostDelete ==
    \/ MachineControllers
    \/ \E h \in Hosts : HCReconcile(h)
    \/ \E h \in Hosts : DeleteHost(h)
    \/ TimedTick

SpecHostDelete == Init /\ [][NextHostDelete]_vars

\* The same with hosts of LargeHostCPUs.
InitLargeHost ==
    /\ extraArgs = NoProviderID
    /\ byoHost = [h \in Hosts |-> [FreeHost EXCEPT !.cpu = LargeHostCPUs]]
    /\ byoMachine = [m \in Machines |-> IF m = "m1" THEN NewMachine
                                        ELSE [NewMachine EXCEPT !.state = "gone"]]
    /\ node = [h \in Hosts |-> NoNode]
    /\ mc = [r \in Replicas |-> IdleMC]
    /\ roundRobinIndex = [r \in Replicas |-> 0]
    /\ agent = [h \in Hosts |-> IdleAgent]
    /\ machineIDFile = [h \in Hosts |-> None]
    /\ registered = {"h1"}
    /\ SkipK8sInstallation = FALSE
    /\ cleanupAge = [h \in Hosts |-> NoStamp]
    /\ InitAside

SpecLargeHostDelete == InitLargeHost /\ [][NextHostDelete]_vars

\* Agent downtime while Machines come and go: replica r1 reconciles m1, which may
\* be deleted, replica r2 reconciles m2; the agent of the host may stop between
\* two reconciles and start again; a lease expires with the clock's tick.
NextZombie ==
    \/ DeleteMachine("m1")
    \/ MCDelete("r1", "m1")
    \/ \E r \in Replicas : MCAttached(r, Reconciles[r])
    \/ \E r \in Replicas : MCList(r, Reconciles[r])
    \/ \E r \in Replicas : MCSelect(r)
    \/ \E r \in Replicas : MCLease(r)
    \/ \E r \in Replicas : MCClaim(r)
    \/ \E r \in Replicas : MCRelease(r)
    \/ \E h \in Hosts : HCReconcile(h)
    \/ TimedTick
    \/ \E h \in Hosts : AgentInstall(h)
    \/ \E h \in Hosts : AgentBootstrap(h)
    \/ \E h \in Hosts : AgentCleanup(h)
    \/ \E h \in Hosts : AgentPatch(h)
    \/ \E h \in Hosts : agent[h].pc = "idle" /\ AgentCrash(h)
    \/ \E h \in Hosts : AgentRestart(h)

SpecZombie == InitContend /\ [][NextZombie]_vars

\* Every reconcile of the ByoMachine controller is requeued and every reconcile
\* in flight goes on; the claiming patch does not fail for ever.
FairMachineControllers ==
    /\ \A m \in Machines : WF_vars(\E r \in Replicas : MCDelete(r, m))
    /\ \A m \in Machines : WF_vars(\E r \in Replicas : MCAttached(r, m))
    /\ \A m \in Machines : WF_vars(\E r \in Replicas : MCList(r, m))
    /\ \A r \in Replicas :
          /\ WF_vars(MCSelect(r))
          /\ WF_vars(MCLease(r))
          /\ SF_vars(MCClaim(r))
          /\ WF_vars(MCRelease(r))

\* The ByoHost controller reconciles and time passes.
FairHostController ==
    /\ \A h \in Hosts : WF_vars(HCReconcile(h))
    /\ WF_vars(TimedTick)

\* Scale-down with a dead agent: no agent step is ever taken.
NextDeadAgent ==
    \/ MachineControllers
    \/ \E h \in Hosts : HCReconcile(h)
    \/ TimedTick

SpecDeadAgent ==
    Init /\ [][NextDeadAgent]_vars /\ FairMachineControllers /\ FairHostController

\* The agent's next reconcile of h would do something.
AgentHasWork(h) ==
    /\ h \in registered
    /\ \/ agent[h].pc # "idle"
       \/ AgentPlan(h) \in {"install", "bootstrap", "cleanup"}
       \/ AgentPlan(h) = "unbootstrap" /\ byoHost[h].bootstrapped

\* A responsive agent: it reconciles on every change of its host and is done with
\* a cleanup before the request is older than the host's cleanup timeout.
ResponsiveTick ==
    /\ \A h \in Hosts :
          (AgentHasWork(h) /\ byoHost[h].cleanupAnn) =>
              cleanupAge[h][1] < getCleanupTimeout(h)
    /\ TimedTick

FairAgents ==
    \A h \in Hosts :
        /\ WF_vars(AgentIdle(h))
        /\ WF_vars(AgentInstall(h))
        /\ WF_vars(AgentBootstrap(h))
        /\ WF_vars(AgentCleanup(h))
        /\ WF_vars(AgentPatch(h))

\* The agent runs with or without --skip-installation.
InitAnyAgent == \E skip \in BOOLEAN : InitWith({"h1"}, {"m1"}, skip)

\* With a responsive agent no claimed host is seen bootstrapped and without its
\* bootstrap secret: reconcileNormal's branch for that (AgentIdle) is not taken.
NextResponsive ==
    \/ MachineControllers
    \/ \E h \in Hosts : AgentInstall(h)
    \/ \E h \in Hosts : AgentBootstrap(h)
    \/ \E h \in Hosts : AgentCleanup(h)
    \/ \E h \in Hosts : AgentPatch(h)
    \/ \E h \in Hosts : HCReconcile(h)
    \/ ResponsiveTick

\* Scale-up and scale-down of one machine on one host with a responsive agent.
SpecResponsive ==
    /\ InitAnyAgent
    /\ [][NextResponsive]_vars
    /\ FairMachineControllers
    /\ FairAgents
    /\ \A h \in Hosts : WF_vars(HCReconcile(h))
    /\ WF_vars(ResponsiveTick)

SpecResponsiveInstall ==
    /\ Init
    /\ [][NextResponsive]_vars
    /\ FairMachineControllers
    /\ FairAgents
    /\ \A h \in Hosts : WF_vars(HCReconcile(h))
    /\ WF_vars(ResponsiveTick)

\* Scale-up of one machine on one free host with a running agent: nothing is
\* deleted, so nothing is cleaned up.
NextScaleUp ==
    \/ \E r \in Replicas, m \in Machines : MCAttached(r, m)
    \/ \E r \in Replicas, m \in Machines : MCList(r, m)
    \/ \E r \in Replicas : MCSelect(r)
    \/ \E r \in Replicas : MCLease(r)
    \/ \E r \in Replicas : MCClaim(r)
    \/ \E r \in Replicas : MCClaimFail(r)
    \/ \E r \in Replicas : MCRelease(r)
    \/ \E h \in Hosts : LeaseExpire(h)
    \/ \E h \in Hosts : AgentInstall(h)
    \/ \E h \in Hosts : AgentBootstrap(h)
    \/ \E h \in Hosts : AgentPatch(h)

SpecScaleUp == Init /\ [][NextScaleUp]_vars /\ FairMachineControllers /\ FairAgents

\* hostCleanUp fails in the uninstall script (RunCmd returns an error), which runs
\* on a host whose components are installed, after the node reset with its Node
\* deletion and before anything is changed on the object; isPermanentCleanupError
\* classifies the error by its text.
AgentCleanupFails(h) ==
    /\ h \in registered
    /\ agent[h].pc = "idle"
    /\ AgentPlan(h) = "cleanup"
    /\ byoHost[h].installed /\ ~SkipK8sInstallation
    /\ node' = [node EXCEPT ![h] = NoNode]
    /\ \E permanent \in BOOLEAN :
          agent' = [agent EXCEPT ![h] = [pc |-> IF permanent THEN "failedPermanent"
                                                 ELSE "failedTransient",
                                         snap |-> AgentSnap(byoHost[h])]]
    /\ UNCHANGED <<byoHost, byoMachine, mc, roundRobinIndex, machineIDFile, registered,
                   SkipK8sInstallation, extraArgs, aside, cleanupAge>>

\* The reconcile whose cleanup failed returns: with the error on the path of the
\* cleanup annotation, whatever its kind; on the path of the deletion with nil
\* after a permanent error and with the error and RequeueAfter 30 s after a
\* transient one.  The deferred Patch finds nothing changed on the object.
AgentFailedReturn(h) ==
    /\ agent[h].pc \in {"failedPermanent", "failedTransient"}
    /\ agent' = [agent EXCEPT ![h] = IdleAgent]
    /\ UNCHANGED <<byoHost, byoMachine, node, mc, roundRobinIndex, machineIDFile, registered,
                   SkipK8sInstallation, extraArgs, aside, cleanupAge>>

\* Scale-up and scale-down of one machine on one host, whose deletion another
\* finalizer may hold, with an agent whose cleanup may fail; replica r1 alone
\* reconciles and no time passes.
NextCleanupFails ==
    \/ \E m \in Machines : DeleteMachine(m)
    \/ \E m \in Machines : MCDelete("r1", m)
    \/ \E m \in Machines : MCAttached("r1", m)
    \/ \E m \in Machines : MCList("r1", m)
    \/ MCSelect("r1")
    \/ MCLease("r1")
    \/ MCClaim("r1")
    \/ MCRelease("r1")
    \/ \E h \in Hosts : DeleteHost(h)
    \/ \E h \in Hosts : AgentInstall(h)
    \/ \E h \in Hosts : AgentBootstrap(h)
    \/ \E h \in Hosts : AgentCleanup(h)
    \/ \E h \in Hosts : AgentPatch(h)
    \/ \E h \in Hosts : AgentCleanupFails(h)
    \/ \E h \in Hosts : AgentFailedReturn(h)

SpecCleanupFails == Init /\ [][NextCleanupFails]_vars

\* Scale-up where the join configuration may carry its own provider-id.
InitExtraArgs ==
    /\ extraArgs \in {NoProviderID, SuffixedProviderID("h1")}
    /\ byoHost = [h \in Hosts |-> FreeHost]
    /\ byoMachine = [m \in Machines |-> IF m = "m1" THEN NewMachine
                                        ELSE [NewMachine EXCEPT !.state = "gone"]]
    /\ node = [h \in Hosts |-> NoNode]
    /\ mc = [r \in Replicas |-> IdleMC]
    /\ roundRobinIndex = [r \in Replicas |-> 0]
    /\ agent = [h \in Hosts |-> IdleAgent]
    /\ machineIDFile = [h \in Hosts |-> None]
    /\ registered = {"h1"}
    /\ SkipK8sInstallation = FALSE
    /\ cleanupAge = [h \in Hosts |-> NoStamp]
    /\ InitAside

SpecExtraArgs == InitExtraArgs /\ [][NextScaleUp]_vars

(***************************************************************************)
(* TLS-bootstrap mode: the bootstrap secret the ByoMachine controller      *)
(* assembles while it binds a host (createBootstrapSecretTLSBootstrap).    *)
(* What the function reads: the BootstrapKubeconfig named by               *)
(* Spec.BootstrapConfigRef ("none": no reference; "nodata": not found or   *)
(* its status empty; "data": status.bootstrapKubeconfigData published),    *)
(* the Machine's bootstrap data secret ("none": no DataSecretName;         *)
(* "empty": none of the keys; "kubeconfig": a bootstrap-kubeconfig key;    *)
(* "ca": a ca.crt key; "cloudinitCA": a value the CA can be extracted      *)
(* from; "cloudinit": a value it cannot), whether the controller's own     *)
(* client configuration loads and whether minting a token succeeds.        *)
(***************************************************************************)

\* Bindings of TLS-bootstrap Machines followed.
MaxBindings == 2

ConfigRefs == {"none", "nodata", "data"}
DataSecrets == {"none", "empty", "kubeconfig", "ca", "cloudinitCA", "cloudinit"}

\* Method 1: the published status of the referenced BootstrapKubeconfig.
FromConfigRef(t) == IF t.configRef = "data" THEN <<"published">> ELSE NoKubeconfig

\* Method 3: the bootstrap-kubeconfig key of the existing bootstrap secret, tried
\* when Method 1 gave nothing (Method 2, the list, is skipped in this mode).
FromDataSecret(t, kubeconfig) ==
    IF kubeconfig = NoKubeconfig /\ t.dataSecret = "kubeconfig" THEN <<"existing">>
    ELSE kubeconfig

\* caData: extracted from the kubeconfig found, else the secret's ca.crt, else the
\* CA of its cloud-init value.
caDataOf(t, kubeconfig) ==
    IF kubeconfig # NoKubeconfig THEN "fromKubeconfig"
    ELSE IF t.configRef # "data" /\ t.dataSecret = "ca" THEN "ca.crt"
    ELSE IF t.configRef # "data" /\ t.dataSecret = "cloudinitCA" THEN "fromCloudInit"
    ELSE None

\* A token is minted only with neither CA nor kubeconfig found, and only when the
\* client configuration loads and generateBootstrapKubeconfigWithToken succeeds.
MintsToken(t) ==
    LET kubeconfig == FromDataSecret(t, FromConfigRef(t)) IN
    /\ caDataOf(t, kubeconfig) = None
    /\ kubeconfig = NoKubeconfig
    /\ t.restConfig
    /\ t.mint

\* The secret's bootstrap-kubeconfig and ca.crt keys; with neither the function
\* returns its error and no secret.
createBootstrapSecretTLSBootstrap(t) ==
    LET found == FromDataSecret(t, FromConfigRef(t))
        kubeconfig == IF MintsToken(t) THEN <<"minted", t.tokens + 1>> ELSE found
        ca == IF MintsToken(t) THEN "fromKubeconfig" ELSE caDataOf(t, found)
    IN [kubeconfig |-> kubeconfig, ca |-> ca]

\* attachByoHost in TLS-bootstrap mode binds a host: the secret is assembled (and
\* replaces the one of the binding before).
TLSBootstrapBind ==
    /\ tlsBootstrap.bindings < MaxBindings
    /\ tlsBootstrap' =
          [tlsBootstrap EXCEPT
              !.bindings = @ + 1,
              !.tokens = IF MintsToken(tlsBootstrap) THEN @ + 1 ELSE @,
              !.secret = createBootstrapSecretTLSBootstrap(tlsBootstrap)]
    /\ UNCHANGED <<protocol, csr, cmdRun, calcs>>

\* Between two bindings what the function reads may change.
TLSBootstrapEnvironment ==
    /\ tlsBootstrap.bindings < MaxBindings
    /\ \E c \in ConfigRefs, d \in DataSecrets, rc \in BOOLEAN, mt \in BOOLEAN :
          tlsBootstrap' = [tlsBootstrap EXCEPT !.configRef = c, !.dataSecret = d,
                                               !.restConfig = rc, !.mint = mt]
    /\ tlsBootstrap' # tlsBootstrap
    /\ UNCHANGED <<protocol, csr, cmdRun, calcs>>

InitTLSBootstrap ==
    /\ InitProtocol({}, {}, FALSE)
    /\ \E c \in ConfigRefs, d \in DataSecrets, rc \in BOOLEAN, mt \in BOOLEAN :
          tlsBootstrap = [NoTLSBootstrap EXCEPT !.configRef = c, !.dataSecret = d,
                                                !.restConfig = rc, !.mint = mt]
    /\ csr = NoCSR
    /\ cmdRun = NoCmdRun
    /\ InitCalcs

NextTLSBootstrap == TLSBootstrapBind \/ TLSBootstrapEnvironment

SpecTLSBootstrap == InitTLSBootstrap /\ [][NextTLSBootstrap]_vars

(***************************************************************************)
(* CSR auto-approver (ByoAdmissionReconciler).  A request's name is a      *)
(* sequence of name parts, its conditions a sequence of [type, reason].    *)
(***************************************************************************)

\* Reconciles of one request followed, and conditions other approvers add.
MaxReconciles == 3
MaxConditions == 2

\* "byoh-csr-", the prefix of the names of the agent's client CSRs.
CSRNamePrefix == <<"byoh-", "csr-">>

KubeAPIServerClientSignerName == "kubernetes.io/kube-apiserver-client"
KubeletServingSignerName == "kubernetes.io/kubelet-serving"

SignerNames ==
    {KubeAPIServerClientSignerName, KubeletServingSignerName,
     "kubernetes.io/kube-apiserver-client-kubelet", "kubernetes.io/legacy-unknown"}

CSRNames ==
    {<<"byoh-", "csr-", "h1">>, <<"byoh-", "csr-">>, <<"byoh-", "h1">>,
     <<"csr-", "byoh-", "csr-", "h1">>, <<"csr-x">>}

\* strings.HasPrefix.
HasPrefix(str, prefix) ==
    Len(str) >= Len(prefix) /\ SubSeq(str, 1, Len(prefix)) = prefix

ApprovedByController == [type |-> "Approved", reason |-> "Approved by ByoAdmission Controller"]

\* A condition set by someone else: another approver, the signer.
ByOthers(type) == [type |-> type, reason |-> "other"]

\* An approver that takes every request for undecided.
checkCSRConditionNever(conditions, conditionType) == FALSE

\* checkCSRCondition: a condition of the type is present, whatever its status.
checkCSRCondition(conditions, conditionType) ==
    \E i \in 1..Len(conditions) : conditions[i].type = conditionType

\* The event filter of SetupWithManager: the requests that are reconciled at all.
ReconciledCSR(c) == HasPrefix(c.name, CSRNamePrefix) \/ c.signer = KubeletServingSignerName

\* The switch on the signer name: does Reconcile go on to approve.
ApprovesSigner(c) ==
    \/ c.signer = KubeAPIServerClientSignerName /\ HasPrefix(c.name, CSRNamePrefix)
    \/ c.signer = KubeletServingSignerName

\* ByoAdmissionReconciler.Reconcile: Get, the checks, UpdateApproval (which may
\* fail: the request is then as it was).
CSRReconcile ==
    /\ ReconciledCSR(csr)
    /\ csr.reconciles < MaxReconciles
    /\ LET decided == checkCSRCondition(csr.conditions, "Approved")
                          \/ checkCSRCondition(csr.conditions, "Denied")
       IN IF decided \/ ~ApprovesSigner(csr)
          THEN csr' = [csr EXCEPT !.reconciles = @ + 1]
          ELSE \E updated \in BOOLEAN :
                  csr' = [csr EXCEPT
                            !.reconciles = @ + 1,
                            !.conditions = IF updated THEN Append(@, ApprovedByController)
                                           ELSE @]
    /\ UNCHANGED <<protocol, tlsBootstrap, cmdRun, calcs>>

\* Someone else approves or denies the request (never both), or the signer fails it.
CSROthers ==
    /\ Len(csr.conditions) < MaxConditions
    /\ \E type \in {"Approved", "Denied", "Failed"} :
          /\ ~checkCSRCondition(csr.conditions, type)
          /\ type = "Approved" => ~checkCSRCondition(csr.conditions, "Denied")
          /\ type = "Denied" => ~checkCSRCondition(csr.conditions, "Approved")
          /\ csr' = [csr EXCEPT !.conditions = Append(@, ByOthers(type))]
    /\ UNCHANGED <<protocol, tlsBootstrap, cmdRun, calcs>>

InitCSR ==
    /\ InitProtocol({}, {}, FALSE)
    /\ tlsBootstrap = NoTLSBootstrap
    /\ cmdRun = NoCmdRun
    /\ InitCalcs
    /\ \E name \in CSRNames, signer \in SignerNames :
          csr = [name |-> name, signer |-> signer, conditions |-> <<>>, reconciles |-> 0]

NextCSR == CSRReconcile \/ CSROthers

SpecCSR == InitCSR /\ [][NextCSR]_vars

(***************************************************************************)
(* The agent's command runner (CmdRunner.RunCmd) under the install retry   *)
(* loop of executeInstallerController.  A command is its first characters  *)
(* (body) followed by pad more characters, each an "a".                    *)
(***************************************************************************)

\* Characters of a command's body followed.
MaxBody == 2

MaxCommandLength == 4096

\* maxRetries of executeInstallerController.
maxRetries == 3

Characters == {"a", " ", ";", "&", "|", "$", "backquote"}

\* dangerousPattern: the characters ; & | $ and the backquote.
dangerousPattern == {";", "&", "|", "$", "backquote"}

Bodies == UNION {[1..n -> Characters] : n \in 0..MaxBody}

Pads == {0, MaxCommandLength - MaxBody, MaxCommandLength - 1, MaxCommandLength}

\* len(cmd).
CmdLen(cmd) == Len(cmd.body) + cmd.pad

\* strings.TrimSpace(cmd) == "".
IsBlank(cmd) == cmd.pad = 0 /\ \A i \in 1..Len(cmd.body) : cmd.body[i] = " "

MatchesDangerous(cmd) == \E i \in 1..Len(cmd.body) : cmd.body[i] \in dangerousPattern

\* RunCmd: was bash run on the command, and is the returned error non-nil.
\* exitOK is the exit status of the command when it runs.
RunCmd(cmd, exitOK) ==
    IF IsBlank(cmd) THEN [executed |-> FALSE, err |-> FALSE]
    ELSE IF CmdLen(cmd) > MaxCommandLength THEN [executed |-> FALSE, err |-> FALSE]
    ELSE IF MatchesDangerous(cmd) THEN [executed |-> FALSE, err |-> FALSE]
    ELSE [executed |-> TRUE, err |-> ~exitOK]

\* executeInstallerController is called with the parsed install script.
InstallStart ==
    /\ cmdRun.pc = "idle"
    /\ cmdRun' = [cmdRun EXCEPT !.pc = "running"]
    /\ UNCHANGED <<protocol, tlsBootstrap, csr, calcs>>

\* One pass of the retry loop: RunCmd; nil ends the loop and the caller marks
\* ComponentsInstalled True; the error of the last attempt is returned.
InstallAttempt ==
    /\ cmdRun.pc = "running"
    /\ \E exitOK \in BOOLEAN :
          LET res == RunCmd(cmdRun.cmd, exitOK)
              ran == IF res.executed THEN cmdRun.executed + 1 ELSE cmdRun.executed
          IN cmdRun' =
                [cmdRun EXCEPT
                    !.executed = ran,
                    !.attempt = @ + 1,
                    !.errs = IF res.err THEN @ + 1 ELSE @,
                    !.pc = IF ~res.err THEN "succeeded"
                           ELSE IF cmdRun.attempt + 1 < maxRetries THEN "running"
                           ELSE "failed"]
    /\ UNCHANGED <<protocol, tlsBootstrap, csr, calcs>>

InitCmdRun ==
    /\ InitProtocol({}, {}, FALSE)
    /\ tlsBootstrap = NoTLSBootstrap
    /\ csr = NoCSR
    /\ InitCalcs
    /\ \E body \in Bodies, pad \in Pads :
          cmdRun = [NoCmdRun EXCEPT !.cmd = [body |-> body, pad |-> pad]]

NextCmdRun == InstallStart \/ InstallAttempt

SpecCmdRun == InitCmdRun /\ [][NextCmdRun]_vars

\* Reconciles of the agent that are followed while the install script fails.
MaxInstallReconciles == 2

\* A reconcile that marks K8sComponentsInstallationSucceeded True whatever
\* executeInstallerController returned.
InstallReturnMarksTrue ==
    /\ cmdRun.pc \in {"succeeded", "failed"}
    /\ cmdRun' = [cmdRun EXCEPT !.pc = "done", !.installed = "True"]
    /\ UNCHANGED <<protocol, tlsBootstrap, csr, calcs>>

\* executeInstallerController returns to reconcileNormal and the reconcile ends
\* with its deferred Patch: after nil the condition is marked True and the
\* reconcile goes on to the bootstrap; after the error of the last attempt the
\* condition is False with K8sComponentsInstallationFailedReason, the reconcile
\* returns the error and the controller runtime requeues the host.
InstallReturn ==
    /\ cmdRun.pc \in {"succeeded", "failed"}
    /\ cmdRun.reconciles < MaxInstallReconciles
    /\ cmdRun' = IF cmdRun.pc = "succeeded"
                 THEN [cmdRun EXCEPT !.pc = "done", !.installed = "True"]
                 ELSE [cmdRun EXCEPT !.pc = "idle", !.attempt = 0, !.errs = 0,
                                     !.installed = "K8sComponentsInstallationFailedReason",
                                     !.reconciles = @ + 1, !.reterr = TRUE]
    /\ UNCHANGED <<protocol, tlsBootstrap, csr, calcs>>

NextInstallRetry == InstallStart \/ InstallAttempt \/ InstallReturn

\* The install under the agent's reconciles: a failed reconcile is followed by
\* the next.
SpecInstallRetry == InitCmdRun /\ [][NextInstallRetry]_vars

(***************************************************************************)
(* The selection of a host for a claim (selectHostForClaim) on its own:    *)
(* hosts of any priority, Machines with and without capacity               *)
(* requirements, one cursor per cluster.                                   *)
(***************************************************************************)

MaxHosts == 3
MaxSelections == 2

Clusters == {"c1", "c2"}
Priorities == {-1, 0, 1}

\* A listed host: what IsAvailable(), MatchesRequirements() and GetPriority()
\* return for it.
ListedHosts == [available : BOOLEAN, matches : BOOLEAN, priority : Priorities]

\* r.roundRobinIndex: clusterName -> <<>> (no entry) or <<index>>.
NoRoundRobinIndex == [c \in Clusters |-> <<>>]

\* The positions in hostsList, in order, of the hosts that pass the filter.
availableHosts(hostsList, requirements) ==
    SelectSeq([i \in 1..Len(hostsList) |-> i],
              LAMBDA i : /\ hostsList[i].available
                         /\ (requirements => hostsList[i].matches))

\* maxPriority := int32(0), raised by every greater priority of an available host.
RECURSIVE maxPriorityFrom(_, _, _, _)
maxPriorityFrom(hostsList, avail, k, acc) ==
    IF k > Len(avail) THEN acc
    ELSE maxPriorityFrom(hostsList, avail, k + 1,
                         IF hostsList[avail[k]].priority > acc
                         THEN hostsList[avail[k]].priority ELSE acc)

highPriorityHosts(hostsList, avail) ==
    LET maxPriority == maxPriorityFrom(hostsList, avail, 1, 0)
    IN SelectSeq(avail, LAMBDA i : hostsList[i].priority = maxPriority)

\* A selection that makes the cursor of the cluster before it looks at the hosts.
selectHostForClaimEarlyIndex(hostsList, roundRobin, clusterName, requirements) ==
    LET avail == availableHosts(hostsList, requirements)
        high == highPriorityHosts(hostsList, avail)
        currentIndex == IF roundRobin[clusterName] = <<>> THEN 0
                        ELSE roundRobin[clusterName][1]
        made == [roundRobin EXCEPT ![clusterName] = <<currentIndex>>]
    IN IF Len(hostsList) = 0 \/ Len(avail) = 0
       THEN [kind |-> "nil", host |-> 0, roundRobinIndex |-> made]
       ELSE IF currentIndex >= Len(high)
       THEN [kind |-> "panic", host |-> 0, roundRobinIndex |-> made]
       ELSE [kind |-> "host", host |-> high[currentIndex + 1],
             roundRobinIndex |->
                [roundRobin EXCEPT ![clusterName] = <<(currentIndex + 1) % Len(high)>>]]

\* selectHostForClaim: the host returned (its position in hostsList), nil, or
\* the panic of an index out of range, and r.roundRobinIndex as it is left.
selectHostForClaim(hostsList, roundRobin, clusterName, requirements) ==
    LET avail == availableHosts(hostsList, requirements)
        high == highPriorityHosts(hostsList, avail)
        currentIndex == IF roundRobin[clusterName] = <<>> THEN 0
                        ELSE roundRobin[clusterName][1]
    IN IF Len(hostsList) = 0 \/ Len(avail) = 0
       THEN [kind |-> "nil", host |-> 0, roundRobinIndex |-> roundRobin]
       ELSE IF currentIndex >= Len(high)
       THEN [kind |-> "panic", host |-> 0,
             roundRobinIndex |-> [roundRobin EXCEPT ![clusterName] = <<currentIndex>>]]
       ELSE [kind |-> "host", host |-> high[currentIndex + 1],
             roundRobinIndex |->
                [roundRobin EXCEPT ![clusterName] = <<(currentIndex + 1) % Len(high)>>]]

\* A claim of a Machine of the cluster selects a host.
SelectHostForClaim(clusterName) ==
    /\ selection.calls < MaxSelections
    /\ LET res == selectHostForClaim(selection.hostsList, selection.roundRobinIndex,
                                     clusterName, selection.requirements)
       IN selection' = [selection EXCEPT
                           !.clusterName = clusterName,
                           !.roundRobinIndex = res.roundRobinIndex,
                           !.result = [kind |-> res.kind, host |-> res.host],
                           !.calls = @ + 1]
    /\ UNCHANGED <<protocol, tlsBootstrap, csr, cmdRun, timeoutCalc, codec, claimLoop, waits, bootstrapKubeconfig>>

\* Between two claims a host is bound or released by someone.
HostsListChange ==
    /\ selection.calls < MaxSelections
    /\ \E i \in 1..Len(selection.hostsList) :
          selection' = [selection EXCEPT !.hostsList[i].available = ~@]
    /\ UNCHANGED <<protocol, tlsBootstrap, csr, cmdRun, timeoutCalc, codec, claimLoop, waits, bootstrapKubeconfig>>

InitSelection ==
    /\ InitProtocol({}, {}, FALSE)
    /\ tlsBootstrap = NoTLSBootstrap
    /\ csr = NoCSR
    /\ cmdRun = NoCmdRun
    /\ timeoutCalc = NoTimeoutCalc
    /\ codec = NoCodec
    /\ claimLoop = NoClaimLoop
    /\ waits = NoWait
    /\ bootstrapKubeconfig = NoBootstrapKubeconfig
    /\ \E n \in 0..MaxHosts :
          \E hostsList \in [1..n -> ListedHosts], requirements \in BOOLEAN :
             selection = [NoSelection EXCEPT !.hostsList = hostsList,
                                             !.requirements = requirements,
                                             !.roundRobinIndex = NoRoundRobinIndex]

NextSelection == (\E c \in Clusters : SelectHostForClaim(c)) \/ HostsListChange

SpecSelection == InitSelection /\ [][NextSelection]_vars

(***************************************************************************)
(* The content of a write_files entry (parseEncodingScheme, decodeContent, *)
(* GzipData, GunzipData).  A byte string is a sequence of 0..255; a base64 *)
(* text is a sequence of the alphabet's positions 0..63 and the padding    *)
(* character, 64.  Of compress/gzip the model keeps the frame: the magic   *)
(* header, the payload and the trailer of checksum and size that the       *)
(* reader verifies; the payload is left uncompressed.                      *)
(***************************************************************************)

MaxData == 4

ByteValues == {0, 65, 255}

DataStrings == UNION {[1..n -> ByteValues] : n \in 0..MaxData}

\* The names of the encodings a write_files entry may declare.
EncodingNames ==
    {"", "text/plain", "base64", "b64", "gz+base64", "gzip+base64", "gz+b64", "gzip+b64"}

Base64Pad == 2^6

\* base64.StdEncoding.EncodeToString
RECURSIVE Base64Encode(_)
Base64Encode(b) ==
    IF Len(b) = 0 THEN <<>>
    ELSE IF Len(b) = 1
    THEN <<b[1] \div 4, (b[1] % 4) * 16, Base64Pad, Base64Pad>>
    ELSE IF Len(b) = 2
    THEN <<b[1] \div 4, (b[1] % 4) * 16 + b[2] \div 16, (b[2] % 16) * 4, Base64Pad>>
    ELSE <<b[1] \div 4, (b[1] % 4) * 16 + b[2] \div 16, (b[2] % 16) * 4 + b[3] \div 64,
           b[3] % 64>> \o Base64Encode(SubSeq(b, 4, Len(b)))

\* base64.StdEncoding.DecodeString: the bytes, or the error of a text that is
\* not padded base64.
RECURSIVE Base64Decode(_)
Base64Decode(c) ==
    IF Len(c) = 0 THEN [err |-> FALSE, bytes |-> <<>>]
    ELSE IF Len(c) < 4 \/ c[1] = Base64Pad \/ c[2] = Base64Pad
    THEN [err |-> TRUE, bytes |-> <<>>]
    ELSE IF c[3] = Base64Pad
    THEN IF Len(c) = 4 /\ c[4] = Base64Pad
         THEN [err |-> FALSE, bytes |-> <<c[1] * 4 + c[2] \div 16>>]
         ELSE [err |-> TRUE, bytes |-> <<>>]
    ELSE IF c[4] = Base64Pad
    THEN IF Len(c) = 4
         THEN [err |-> FALSE,
               bytes |-> <<c[1] * 4 + c[2] \div 16, (c[2] % 16) * 16 + c[3] \div 4>>]
         ELSE [err |-> TRUE, bytes |-> <<>>]
    ELSE LET rest == Base64Decode(SubSeq(c, 5, Len(c)))
         IN [err |-> rest.err,
             bytes |-> IF rest.err THEN <<>>
                       ELSE <<c[1] * 4 + c[2] \div 16, (c[2] % 16) * 16 + c[3] \div 4,
                              (c[3] % 4) * 64 + c[4]>> \o rest.bytes]

GzipMagic == <<31, 139>>

RECURSIVE Checksum(_)
Checksum(b) == IF Len(b) = 0 THEN 0 ELSE (b[1] + Checksum(Tail(b))) % 256

\* GzipData: the gzip stream of the data.
GzipData(data) == GzipMagic \o data \o <<Checksum(data), Len(data) % 256>>

\* GunzipData: the data of a gzip stream; the error of gzip.NewReader on
\* anything else, of ReadFrom on a trailer that does not match.
GunzipData(b) ==
    IF Len(b) < 4 \/ SubSeq(b, 1, 2) # GzipMagic
    THEN [err |-> TRUE, bytes |-> <<>>]
    ELSE LET payload == SubSeq(b, 3, Len(b) - 2)
         IN IF b[Len(b) - 1] = Checksum(payload) /\ b[Len(b)] = Len(payload) % 256
            THEN [err |-> FALSE, bytes |-> payload]
            ELSE [err |-> TRUE, bytes |-> <<>>]

\* An encoding scheme that knows base64 under one name only.
parseEncodingSchemeNoAlias(e) ==
    IF e \in {"gz+base64", "gzip+base64", "gz+b64", "gzip+b64"}
    THEN <<"application/base64", "application/x-gzip">>
    ELSE IF e = "base64" THEN <<"application/base64">>
    ELSE <<"text/plain">>

\* parseEncodingScheme, on a name in lower case without blanks around it.
parseEncodingScheme(e) ==
    IF e \in {"gz+base64", "gzip+base64", "gz+b64", "gzip+b64"}
    THEN <<"application/base64", "application/x-gzip">>
    ELSE IF e \in {"base64", "b64"} THEN <<"application/base64">>
    ELSE <<"text/plain">>

\* decodeContent: the encodings are undone in the order given; the first error
\* returns the content as it is then.
RECURSIVE decodeContent(_, _)
decodeContent(content, encodings) ==
    IF Len(encodings) = 0 THEN [err |-> FALSE, content |-> content]
    ELSE IF Head(encodings) = "application/base64"
    THEN LET r == Base64Decode(content)
         IN IF r.err THEN [err |-> TRUE, content |-> content]
            ELSE decodeContent(r.bytes, Tail(encodings))
    ELSE IF Head(encodings) = "application/x-gzip"
    THEN LET r == GunzipData(content)
         IN IF r.err THEN [err |-> TRUE, content |-> content]
            ELSE decodeContent(r.bytes, Tail(encodings))
    ELSE IF Head(encodings) = "text/plain"
    THEN decodeContent(content, Tail(encodings))
    ELSE [err |-> TRUE, content |-> content]

\* The content the author of the bootstrap data writes for the data under the
\* encoding declared: as it is, in base64, or gzipped and then in base64.
EncodedContent(encoding, data) ==
    IF encoding \in {"gz+base64", "gzip+base64", "gz+b64", "gzip+b64"}
    THEN Base64Encode(GzipData(data))
    ELSE IF encoding \in {"base64", "b64"} THEN Base64Encode(data)
    ELSE data

\* The bootstrap data is written: the entry gets its content.
WriteEntry ==
    /\ codec.pc = "data"
    /\ codec' = [codec EXCEPT !.pc = "encoded",
                              !.content = EncodedContent(codec.encoding, codec.data)]
    /\ UNCHANGED <<protocol, tlsBootstrap, csr, cmdRun, timeoutCalc, selection, claimLoop, waits, bootstrapKubeconfig>>

\* Execute decodes the entry.
DecodeEntry ==
    /\ codec.pc = "encoded"
    /\ LET r == decodeContent(codec.content, parseEncodingScheme(codec.encoding))
       IN codec' = [codec EXCEPT !.pc = "decoded", !.err = r.err, !.decoded = r.content]
    /\ UNCHANGED <<protocol, tlsBootstrap, csr, cmdRun, timeoutCalc, selection, claimLoop, waits, bootstrapKubeconfig>>

InitCodec ==
    /\ InitProtocol({}, {}, FALSE)
    /\ tlsBootstrap = NoTLSBootstrap
    /\ csr = NoCSR
    /\ cmdRun = NoCmdRun
    /\ timeoutCalc = NoTimeoutCalc
    /\ selection = NoSelection
    /\ claimLoop = NoClaimLoop
    /\ waits = NoWait
    /\ bootstrapKubeconfig = NoBootstrapKubeconfig
    /\ \E encoding \in EncodingNames, data \in DataStrings :
          codec = [NoCodec EXCEPT !.encoding = encoding, !.data = data, !.pc = "data"]

NextCodec == WriteEntry \/ DecodeEntry

SpecCodec == InitCodec /\ [][NextCodec]_vars

(***************************************************************************)
(* The retry loop of attachByoHost in both join modes, with a binding      *)
(* patch that may fail.  Both hosts are free and listed; a lease on a host *)
(* is "none", "mine" (acquired by this reconcile) or "other" (somebody     *)
(* else's, within its 30 s).  In TLS-bootstrap mode the bootstrap secret   *)
(* of the Machine is assembled and created before the patch; the assembly  *)
(* itself succeeds.                                                        *)
(***************************************************************************)

MaxClaimReconciles == 2

JoinModes == {"kubeadm", "tlsbootstrap"}

\* time.Sleep(exponentialBackoff(attempt)); continue, or the end of the loop:
\* "failed to attach byohost after all retries", RequeueAfter.
AfterAttempt(c) ==
    IF c.attempt + 1 < MaxRetries
    THEN [c EXCEPT !.pc = "select", !.attempt = @ + 1, !.host = None]
    ELSE [c EXCEPT !.pc = "requeue", !.attempt = MaxRetries, !.host = None]

\* releaseLease on the host of this attempt.
LeaseReleased(c) == [c EXCEPT !.lease[c.host] = "none"]

\* The reconcile of a Machine without a host starts, or starts again after a
\* requeue or an error.
ClaimStart ==
    /\ claimLoop.pc \in {"idle", "requeue", "error"}
    /\ claimLoop.reconciles < MaxClaimReconciles
    /\ claimLoop' = [claimLoop EXCEPT !.pc = "select", !.attempt = 0, !.failures = 0,
                                      !.reconciles = @ + 1]
    /\ UNCHANGED <<protocol, tlsBootstrap, csr, cmdRun, timeoutCalc, selection, codec, waits, bootstrapKubeconfig>>

\* selectHostForClaim over the two hosts, and the re-fetch.
ClaimSelect ==
    /\ claimLoop.pc = "select"
    /\ claimLoop' = [claimLoop EXCEPT
                        !.pc = "lease",
                        !.host = HostOrder[claimLoop.roundRobinIndex + 1],
                        !.roundRobinIndex = (@ + 1) % Len(HostOrder)]
    /\ UNCHANGED <<protocol, tlsBootstrap, csr, cmdRun, timeoutCalc, selection, codec, waits, bootstrapKubeconfig>>

\* tryAcquireLease; then, by join mode, the bootstrap secret or the patch.
ClaimLease ==
    /\ claimLoop.pc = "lease"
    /\ claimLoop' =
          IF claimLoop.lease[claimLoop.host] = "other" THEN AfterAttempt(claimLoop)
          ELSE [claimLoop EXCEPT
                   !.lease[claimLoop.host] = "mine",
                   !.pc = IF claimLoop.joinMode = "tlsbootstrap" THEN "secret" ELSE "patch"]
    /\ UNCHANGED <<protocol, tlsBootstrap, csr, cmdRun, timeoutCalc, selection, codec, waits, bootstrapKubeconfig>>

\* createBootstrapSecretTLSBootstrap: r.Client.Create of the secret named after
\* the Machine; its error (the secret exists) releases the lease and ends the
\* reconcile with the error.
ClaimSecret ==
    /\ claimLoop.pc = "secret"
    /\ claimLoop' =
          IF claimLoop.secret
          THEN [LeaseReleased(claimLoop) EXCEPT !.pc = "error", !.host = None]
          ELSE [claimLoop EXCEPT !.secret = TRUE, !.pc = "patch"]
    /\ UNCHANGED <<protocol, tlsBootstrap, csr, cmdRun, timeoutCalc, selection, codec, waits, bootstrapKubeconfig>>

\* byohostHelper.Patch: the host is bound and the lease released, or the patch
\* fails, the lease is released and the loop goes on.
ClaimPatch ==
    /\ claimLoop.pc = "patch"
    /\ \E ok \in BOOLEAN :
          claimLoop' =
             IF ok
             THEN [LeaseReleased(claimLoop) EXCEPT !.pc = "done", !.bound = claimLoop.host]
             ELSE AfterAttempt([LeaseReleased(claimLoop) EXCEPT !.failures = @ + 1])
    /\ UNCHANGED <<protocol, tlsBootstrap, csr, cmdRun, timeoutCalc, selection, codec, waits, bootstrapKubeconfig>>

\* Another claim acquires the lease of a host, or its lease runs out.
OtherLease ==
    /\ claimLoop.pc \in {"select", "requeue", "error"}
    /\ \E h \in Hosts :
          /\ claimLoop.lease[h] # "mine"
          /\ claimLoop' = [claimLoop EXCEPT
                              !.lease[h] = IF @ = "none" THEN "other" ELSE "none"]
    /\ UNCHANGED <<protocol, tlsBootstrap, csr, cmdRun, timeoutCalc, selection, codec, waits, bootstrapKubeconfig>>

InitClaimLoop ==
    /\ InitProtocol({}, {}, FALSE)
    /\ tlsBootstrap = NoTLSBootstrap
    /\ csr = NoCSR
    /\ cmdRun = NoCmdRun
    /\ timeoutCalc = NoTimeoutCalc
    /\ selection = NoSelection
    /\ codec = NoCodec
    /\ waits = NoWait
    /\ bootstrapKubeconfig = NoBootstrapKubeconfig
    /\ \E joinMode \in JoinModes : claimLoop = [NoClaimLoop EXCEPT !.joinMode = joinMode]

NextClaimLoop ==
    ClaimStart \/ ClaimSelect \/ ClaimLease \/ ClaimSecret \/ ClaimPatch \/ OtherLease

SpecClaimLoop == InitClaimLoop /\ [][NextClaimLoop]_vars

(***************************************************************************)
(* The waits between the attempts of the retry loops, under a context that *)
(* may be cancelled: the install script (executeInstallerController), the  *)
(* claim (attachByoHost) and the node reset (resetNodeWithRetry).  Time is *)
(* counted in units of 100 ms; an attempt is numbered from 0.              *)
(***************************************************************************)

Loops == {"install", "claim", "reset"}

\* time.Sleep(10 * time.Second) of executeInstallerController.
InstallRetryDelay == 100

\* time.NewTimer(30 * time.Second) of resetNodeWithRetry.
ResetRetryDelay == 300

\* The attempts of resetNodeWithRetry.
ResetAttempts == 3

RECURSIVE Shl(_)
Shl(n) == IF n = 0 THEN 1 ELSE 2 * Shl(n - 1)

\* exponentialBackoff: 0 for the first attempt, then 100 ms doubled each time.
exponentialBackoff(attempt) == IF attempt = 0 THEN 0 ELSE Shl(attempt - 1)

AttemptsOf(loop) ==
    CASE loop = "install" -> maxRetries
      [] loop = "claim" -> MaxRetries
      [] loop = "reset" -> ResetAttempts

\* Is there a wait after the failure of this attempt: not after the last one of
\* the install and of the reset; after every one of the claim.
WaitsAfter(loop, attempt) == loop = "claim" \/ attempt < AttemptsOf(loop) - 1

DelayOf(loop, attempt) ==
    CASE loop = "install" -> InstallRetryDelay
      [] loop = "claim" -> exponentialBackoff(attempt)
      [] loop = "reset" -> ResetRetryDelay

\* Does the wait watch the context: the select on ctx.Done() of
\* resetNodeWithRetry; the install and the claim call time.Sleep.
WakesOnCancel(loop) == loop = "reset"

\* The context of the reconcile is cancelled (the manager shuts down).
CancelContext ==
    /\ waits.pc \in {"attempt", "waiting"}
    /\ ~waits.cancelled
    /\ waits' = [waits EXCEPT !.cancelled = TRUE]
    /\ UNCHANGED <<protocol, tlsBootstrap, csr, cmdRun, timeoutCalc, selection, codec, claimLoop, bootstrapKubeconfig>>

\* The attempt succeeds (never under a cancelled context: the command, or the
\* API call, gets the context) and the loop returns nil.
AttemptSucceeds ==
    /\ waits.pc = "attempt"
    /\ ~waits.cancelled
    /\ waits' = [waits EXCEPT !.pc = "returned", !.err = "nil"]
    /\ UNCHANGED <<protocol, tlsBootstrap, csr, cmdRun, timeoutCalc, selection, codec, claimLoop, bootstrapKubeconfig>>

\* The attempt fails: the wait before the next one starts, or the loop returns
\* the last error.
AttemptFails ==
    /\ waits.pc = "attempt"
    /\ waits' = IF WaitsAfter(waits.loop, waits.attempt)
                THEN [waits EXCEPT !.pc = "waiting",
                                   !.left = DelayOf(waits.loop, waits.attempt)]
                ELSE [waits EXCEPT !.pc = "returned", !.err = "lastErr"]
    /\ UNCHANGED <<protocol, tlsBootstrap, csr, cmdRun, timeoutCalc, selection, codec, claimLoop, bootstrapKubeconfig>>

\* 100 ms pass in the wait; a wait that watches a cancelled context has
\* returned before.
WaitElapse ==
    /\ waits.pc = "waiting"
    /\ waits.left > 0
    /\ ~(WakesOnCancel(waits.loop) /\ waits.cancelled)
    /\ waits' = [waits EXCEPT !.left = @ - 1]
    /\ UNCHANGED <<protocol, tlsBootstrap, csr, cmdRun, timeoutCalc, selection, codec, claimLoop, bootstrapKubeconfig>>

\* The wait ends: on ctx.Done() with ctx.Err(), or with the delay over and the
\* next attempt, or the end of the loop (select takes either case when both are
\* ready).
WaitEnd ==
    /\ waits.pc = "waiting"
    /\ \/ /\ WakesOnCancel(waits.loop) /\ waits.cancelled
          /\ waits' = [waits EXCEPT !.pc = "returned", !.err = "ctx.Err"]
       \/ /\ waits.left = 0
          /\ waits' = IF waits.attempt + 1 < AttemptsOf(waits.loop)
                      THEN [waits EXCEPT !.pc = "attempt", !.attempt = @ + 1]
                      ELSE [waits EXCEPT !.pc = "returned", !.err = "lastErr"]
    /\ UNCHANGED <<protocol, tlsBootstrap, csr, cmdRun, timeoutCalc, selection, codec, claimLoop, bootstrapKubeconfig>>

InitWaits ==
    /\ InitProtocol({}, {}, FALSE)
    /\ tlsBootstrap = NoTLSBootstrap
    /\ csr = NoCSR
    /\ cmdRun = NoCmdRun
    /\ timeoutCalc = NoTimeoutCalc
    /\ selection = NoSelection
    /\ codec = NoCodec
    /\ claimLoop = NoClaimLoop
    /\ bootstrapKubeconfig = NoBootstrapKubeconfig
    /\ \E loop \in Loops : waits = [NoWait EXCEPT !.loop = loop, !.pc = "attempt"]

NextWaits == CancelContext \/ AttemptSucceeds \/ AttemptFails \/ WaitElapse \/ WaitEnd

SpecWaits == InitWaits /\ [][NextWaits]_vars

(***************************************************************************)
(* The BootstrapKubeconfig controller (BootstrapKubeconfigReconciler): one *)
(* object, the bootstrap token secrets made for it, and the watch events   *)
(* that queue its reconciles.                                              *)
(***************************************************************************)

\* Reconciles of the object that are followed.
MaxBKReconciles == 4

\* Reconcile.  Empty API-server or CA fields are filled from the owner chain
\* (populateFromOriginal); without an owner and without data the reconcile
\* returns.  Otherwise, with or without data in the status, a bootstrap token is
\* generated and its secret created, and the status is patched with the
\* kubeconfig of that token: the object changes, which queues the next reconcile.
BKReconcile ==
    /\ bootstrapKubeconfig.event
    /\ bootstrapKubeconfig.reconciles < MaxBKReconciles
    /\ LET bk == bootstrapKubeconfig
           empty == bk.apiServer = "" \/ bk.ca = ""
           populated == IF empty /\ bk.owner
                        THEN [bk EXCEPT !.apiServer = "endpoint", !.ca = "ca"]
                        ELSE bk
       IN bootstrapKubeconfig' =
             IF empty /\ ~bk.owner /\ bk.data = <<>>
             THEN [bk EXCEPT !.event = FALSE, !.reconciles = @ + 1]
             ELSE [populated EXCEPT !.created = @ + 1, !.live = @ + 1,
                                    !.data = <<bk.created + 1, populated.apiServer>>,
                                    !.event = TRUE, !.reconciles = @ + 1]
    /\ UNCHANGED <<protocol, tlsBootstrap, csr, cmdRun, timeoutCalc, selection, codec,
                   claimLoop, waits>>

\* The ttl of a token passes and the token cleaner deletes its secret.
BKTokenExpires ==
    /\ bootstrapKubeconfig.live > 0
    /\ bootstrapKubeconfig' = [bootstrapKubeconfig EXCEPT !.live = @ - 1]
    /\ UNCHANGED <<protocol, tlsBootstrap, csr, cmdRun, timeoutCalc, selection, codec,
                   claimLoop, waits>>

\* The Machine owner reference is set on an object that had none.
BKOwnerSet ==
    /\ ~bootstrapKubeconfig.owner
    /\ bootstrapKubeconfig' = [bootstrapKubeconfig EXCEPT !.owner = TRUE, !.event = TRUE]
    /\ UNCHANGED <<protocol, tlsBootstrap, csr, cmdRun, timeoutCalc, selection, codec,
                   claimLoop, waits>>

\* The API server of the object is changed.
BKAPIServerChange ==
    /\ bootstrapKubeconfig.apiServer # ""
    /\ bootstrapKubeconfig' =
          [bootstrapKubeconfig EXCEPT
              !.apiServer = IF @ = "endpoint" THEN "endpoint2" ELSE "endpoint",
              !.event = TRUE]
    /\ UNCHANGED <<protocol, tlsBootstrap, csr, cmdRun, timeoutCalc, selection, codec,
                   claimLoop, waits>>

\* A BootstrapKubeconfig has been created: its fields set or left empty (a clone
\* of a template), with or without a Machine owner.
InitBootstrapKubeconfig ==
    /\ InitProtocol({}, {}, FALSE)
    /\ tlsBootstrap = NoTLSBootstrap
    /\ csr = NoCSR
    /\ cmdRun = NoCmdRun
    /\ timeoutCalc = NoTimeoutCalc
    /\ selection = NoSelection
    /\ codec = NoCodec
    /\ claimLoop = NoClaimLoop
    /\ waits = NoWait
    /\ \E apiServer \in {"", "endpoint"}, ca \in {"", "ca"}, owner \in BOOLEAN :
          bootstrapKubeconfig =
             [NoBootstrapKubeconfig EXCEPT !.apiServer = apiServer, !.ca = ca,
                                           !.owner = owner, !.event = TRUE]

NextBootstrapKubeconfig ==
    BKReconcile \/ BKTokenExpires \/ BKOwnerSet \/ BKAPIServerChange

SpecBootstrapKubeconfig == InitBootstrapKubeconfig /\ [][NextBootstrapKubeconfig]_vars

(***************************************************************************)
(* Properties.                                                             *)
(***************************************************************************)

\* C1 (no double-claim): a host bound to a Machine is not bound to a different
\* Machine until its MachineRef has been cleared: no step changes a host's
\* MachineRef from one Machine directly to another.
NoDoubleClaim ==
    [][\A h \in Hosts :
          (byoHost'[h].machineRef # byoHost[h].machineRef /\ byoHost'[h].machineRef # None)
             => byoHost[h].machineRef = None]_vars

\* C2 (one host per Machine): at all times at most one host refers to a given
\* Machine by its MachineRef or its attached-machine label.
OneHostPerMachine ==
    \A m \in Machines :
        Cardinality({h \in Hosts : byoHost[h].machineRef = m \/ byoHost[h].label = m}) <= 1

\* C3 (lease safety): while replica r holds an unexpired lease on a host (acquired,
\* not yet released) and r itself does not move, no step of another replica changes
\* that host's MachineRef.
LeaseSafety ==
    [][\A r \in Replicas :
          (/\ mc[r].pc \in {"claim", "release"}
           /\ mc'[r].pc = mc[r].pc
           /\ byoHost[mc[r].host].lease = [holder |-> mc[r].machine, valid |-> TRUE])
             => byoHost'[mc[r].host].machineRef = byoHost[mc[r].host].machineRef]_vars

\* C4 (concurrent claim on one host): with one free host and two Machines
\* reconciled at once, the host's MachineRef and its attached-machine label never
\* name two different Machines, and every execution ends with one Machine bound to
\* the host and the other reporting BYOHostsUnavailable.
OneBoundOtherUnavailable ==
    \E m \in Machines :
        /\ byoHost["h1"].machineRef = m
        /\ byoHost["h1"].label = m
        /\ \A o \in Machines \ {m} : byoMachine[o].reason = "BYOHostsUnavailable"

NeverReferencedByBoth ==
    \A h \in Hosts :
        byoHost[h].machineRef = None \/ byoHost[h].label = None
            \/ byoHost[h].machineRef = byoHost[h].label

DeletionObserved(m) ==
    /\ byoMachine[m].state = "deleting"
    /\ \A h \in Hosts : byoHost[h].machineRef # m
    /\ \E h \in Hosts : byoHost[h].label = m /\ byoHost[h].cleanupAnn

NoResurrection ==
    [][\A m \in Machines :
          DeletionObserved(m) => \A h \in Hosts : byoHost'[h].machineRef # m]_vars

DeadAgentScaleDown ==
    (byoHost["h1"].machineRef = "m1" /\ byoMachine["m1"].state = "deleting")
        ~> (byoMachine["m1"].state = "gone")

\* C8 (scale-down with a responsive agent): once h1 is bound to m1 and
\* bootstrapped and m1 is being deleted, the system reaches a state in which h1
\* has no MachineRef and no cluster label, the Node h1 is deleted and m1 is
\* reaped; and no cleanup request outlives the host's cleanup timeout.
ScaledDown ==
    /\ byoHost["h1"].machineRef = None
    /\ byoHost["h1"].label = None
    /\ ~node["h1"].exists
    /\ byoMachine["m1"].state = "gone"

WithinCleanupTimeout ==
    \A h \in Hosts :
        byoHost[h].cleanupAnn =>
            cleanupAge[h] # NoStamp /\ cleanupAge[h][1] <= getCleanupTimeout(h)

ResponsiveScaleDown ==
    /\ (byoHost["h1"].machineRef = "m1" /\ byoHost["h1"].bootstrapped
            /\ byoMachine["m1"].state = "deleting") ~> ScaledDown
    /\ []WithinCleanupTimeout

\* C9 (happy-path scale-up, kubeadm): with one free host, a running agent and one
\* Machine, the system reaches and stays in a state where h1 is bound to m1 with
\* m1's bootstrap secret, the install and then the bootstrap have run, the
\* NodeBootstrapped condition is True and the Node h1 exists with the provider-ID
\* of h1; and the bootstrap never runs before the install.
ScaledUp ==
    /\ byoHost["h1"].machineRef = "m1"
    /\ byoHost["h1"].bootstrapSecret = "m1"
    /\ byoHost["h1"].installed
    /\ byoHost["h1"].bootstrapped
    /\ node["h1"].exists
    /\ node["h1"].providerID = <<"byoh://", "h1">>

InstallBeforeBootstrap ==
    \A h \in Hosts :
        node[h].exists => (agent[h].pc = "bootstrapped" \/ byoHost[h].installed)

HappyPathScaleUp == <>[]ScaledUp /\ []InstallBeforeBootstrap

\* The scale-up is complete: the Machine is ready and nothing is in flight.
ScaledUpReady ==
    /\ ScaledUp
    /\ byoMachine["m1"].ready
    /\ agent["h1"].pc = "idle"
    /\ \A r \in Replicas : mc[r].pc = "idle"

\* C10 (a released host returns to the pool): a host released by the forced
\* release (no MachineRef, no cleanup annotation) eventually is eligible again:
\* released and returned by the candidate query, which lists the hosts without
\* cluster label.  Where no agent runs, NodeBootstrapped is True on a released host
\* only by the forced release, which marks it.
Eligible(h) == IsAvailable(byoHost[h]) /\ byoHost[h].label = None

ForceReleasedHost(h) ==
    /\ h \in registered
    /\ IsAvailable(byoHost[h])
    /\ byoHost[h].bootstrapped

ReturnsToPool == \A h \in Hosts : ForceReleasedHost(h) ~> Eligible(h)

\* C11 (force-release audit trail): a forced release leaves the force-cleanup-audit
\* annotation on the host, where it stays until the agent's next registration
\* observes and clears it: the step that force-releases a host (the cleanup
\* annotation goes, NodeBootstrapped is True, no agent moves) leaves the
\* annotation set, and only a registering agent removes it.
IsForceRelease(h) ==
    /\ byoHost[h].cleanupAnn
    /\ ~byoHost'[h].cleanupAnn
    /\ byoHost'[h].bootstrapped
    /\ agent' = agent

AuditTrailKept ==
    [][\A h \in Hosts :
          /\ IsForceRelease(h) => byoHost'[h].auditAnn
          /\ (byoHost[h].auditAnn /\ ~byoHost'[h].auditAnn) => agent'[h] # agent[h]]_vars

\* C12 (deleting hosts are force-released): no host bears a MachineRef together
\* with a DeletionTimestamp older than its cleanup timeout plus one reconcile
\* period of the ByoHost controller (its requeue interval), whether or not the
\* cleanup annotation was ever set on it.
DeletingHostReleased ==
    \A h \in Hosts :
        (byoHost[h].machineRef # None /\ byoHost[h].deletionAge # NoStamp) =>
            byoHost[h].deletionAge[1] <= Exceeds(getCleanupTimeout(h)) + Exceeds(RequeueAfter(h))

\* C13 (only available hosts are bound): no step writes a new MachineRef onto a
\* host that carries the cleanup annotation when the write happens.
OnlyAvailableBound ==
    [][\A h \in Hosts :
          (byoHost'[h].machineRef # byoHost[h].machineRef /\ byoHost'[h].machineRef # None)
             => ~byoHost[h].cleanupAnn]_vars

\* C14 (bootstrapped implies installed): in every reachable state of a host
\* object the NodeBootstrapped condition is True only if the ComponentsInstalled
\* condition is True.
BootstrappedImpliesInstalled ==
    \A h \in Hosts : byoHost[h].bootstrapped => byoHost[h].installed

\* C15 (provider-ID consistency): once the ByoMachine controller has processed the
\* Node of a bound host (the Machine bound to the host is ready), the Node's
\* Spec.ProviderID is exactly <<scheme, host name>> and the Machine carries the
\* same value as its provider-ID.
ProviderIDConsistent ==
    \A h \in Hosts, m \in Machines :
        (byoHost[h].machineRef = m /\ byoMachine[m].ready /\ node[h].exists) =>
            /\ node[h].providerID = generateProviderID(h)
            /\ byoMachine[m].providerID = node[h].providerID

\* C16 (zombie rebind): an agent that finds its host bound to m2 while the
\* machine-id it persisted is another Machine's cleans up locally and stays bound:
\* the reconcile that did the mismatch cleanup (it read the host bound to m2, with
\* no cleanup annotation and not being deleted) ends with h1 still bound to m2.
MismatchCleanupDone(h) ==
    /\ agent[h].pc = "cleaned"
    /\ agent[h].snap.machineRef = "m2"
    /\ agent[h].snap.bootstrapSecret = "m2"
    /\ ~agent[h].snap.cleanupAnn
    /\ agent[h].snap.deletionAge = NoStamp
    /\ byoHost[h].machineRef = "m2"

ZombieRebind ==
    [][\A h \in Hosts :
          (MismatchCleanupDone(h) /\ agent'[h].pc = "idle")
             => byoHost'[h].machineRef = "m2"]_vars

\* C17 (cleanup without installed components): an agent cleanup of a host whose
\* ComponentsInstalled condition is not True still deletes the host's Node (no
\* Node h exists once the cleanup has run on the host) and its deferred Patch
\* clears the binding: MachineRef, labels and cleanup annotation.
CleanupOfUninstalled(h) ==
    /\ agent[h].pc = "idle"
    /\ agent'[h].pc = "cleaned"
    /\ ~byoHost[h].installed

UninstalledCleanupDeletesNode ==
    [][\A h \in Hosts :
          /\ CleanupOfUninstalled(h) => ~node'[h].exists
          /\ (agent[h].pc = "cleaned" /\ ~agent[h].snap.installed /\ agent'[h].pc = "idle")
                => (/\ byoHost'[h].machineRef = None
                    /\ byoHost'[h].label = None
                    /\ ~byoHost'[h].cleanupAnn)]_vars

\* C18 (fresh token per TLS-bootstrap binding): every bootstrap secret assembled
\* during a binding carries a bootstrap kubeconfig with the token minted in that
\* binding, never a published or an existing one (and never none).
FreshTokenPerBinding ==
    [][tlsBootstrap'.bindings = tlsBootstrap.bindings + 1 =>
          (tlsBootstrap'.secret # NoSecret =>
              /\ tlsBootstrap'.tokens = tlsBootstrap.tokens + 1
              /\ tlsBootstrap'.secret.kubeconfig = <<"minted", tlsBootstrap'.tokens>>)]_vars

\* C19 (CSR auto-approval): a reconcile of the approver appends its Approved
\* condition only to a request with neither an Approved nor a Denied condition
\* whose signer is kubelet-serving, or kube-apiserver-client with the name prefix
\* byoh-csr-; it leaves every other request as it is, so reconciling a request
\* that is already approved changes nothing.
Approvable(c) ==
    /\ \A i \in 1..Len(c.conditions) : c.conditions[i].type \notin {"Approved", "Denied"}
    /\ \/ c.signer = "kubernetes.io/kubelet-serving"
       \/ /\ c.signer = "kubernetes.io/kube-apiserver-client"
          /\ Len(c.name) >= 2 /\ c.name[1] = "byoh-" /\ c.name[2] = "csr-"

Rejected(cmd) ==
    \/ Len(cmd.body) + cmd.pad > 4096
    \/ \E i \in 1..Len(cmd.body) : cmd.body[i] \in {";", "&", "|", "$", "backquote"}

RejectedNeverSucceeds ==
    Rejected(cmdRun.cmd) => (cmdRun.executed = 0 /\ cmdRun.pc # "succeeded")

\* The timeout the capacity formula gives, in seconds: 5 min, 30 s for each CPU
\* beyond 8, 60 s for each whole 8 GiB beyond 16 GiB, clamped to [2 min, 15 min]
\* (20 more CPUs or 10 more 8 GiB already reach the 15 min).
FormulaSeconds(cpu, memory) ==
    LET extraCPUs == IF cpu # <<>> /\ cpu[1] > 8 THEN Min(cpu[1] - 8, 20) ELSE 0
        extraMemory == IF memory # <<>> /\ memory[1] > 16
                       THEN Min((memory[1] - 16) \div 8, 10) ELSE 0
        t == 300 + 30 * extraCPUs + 60 * extraMemory
    IN IF t < 120 THEN 120 ELSE IF t > 900 THEN 900 ELSE t

\* C21 (capacity formula): with no environment override, the cleanup timeout of
\* a host is 5 min + 30 s per CPU beyond 8 + 60 s per whole 8 GiB of memory
\* beyond 16 GiB, clamped to [2 min, 15 min], for every declared capacity.
TimeoutFollowsCapacity ==
    (timeoutCalc.timeout # <<>> /\ ~timeoutCalc.env.set)
       => timeoutCalc.timeout = Seconds(FormulaSeconds(timeoutCalc.cpu, timeoutCalc.memory))

\* C22 (environment override): an override that parses gives a flat timeout
\* clamped to [2 min, 15 min], whatever the capacity of the host: below 2 min it
\* gives 2 min, above 15 min it gives 15 min, in between the value itself.
OverrideClamped ==
    (timeoutCalc.timeout # <<>> /\ timeoutCalc.env.set /\ timeoutCalc.env.parses)
       => timeoutCalc.timeout =
             Seconds(IF timeoutCalc.env.seconds < 120 THEN 120
                     ELSE IF timeoutCalc.env.seconds > 900 THEN 900
                     ELSE timeoutCalc.env.seconds)

\* The round-robin pool of a selection: the listed hosts that are available and
\* match the Machine's capacity requirements, if it has any.
InPool(sel, i) ==
    /\ sel.hostsList[i].available
    /\ (sel.requirements => sel.hostsList[i].matches)

RoundRobinPool(sel) == {i \in 1..Len(sel.hostsList) : InPool(sel, i)}

\* A step in which selectHostForClaim runs.
IsSelection == selection'.calls = selection.calls + 1

TopPriorityHosts(sel) ==
    SelectSeq([i \in 1..Len(sel.hostsList) |-> i],
              LAMBDA i : /\ InPool(sel, i)
                         /\ \A j \in RoundRobinPool(sel) :
                               sel.hostsList[j].priority <= sel.hostsList[i].priority)

\* C29 (priority, then round robin): a selection over a non-empty pool returns
\* the host at position (cursor mod N) of the N hosts of the greatest priority
\* in the pool, whatever the cursor and the priorities are.
SelectsTopPriority ==
    [][(IsSelection /\ RoundRobinPool(selection) # {})
          => LET top == TopPriorityHosts(selection)
                 entry == selection.roundRobinIndex[selection'.clusterName]
                 cursor == IF entry = <<>> THEN 0 ELSE entry[1]
             IN /\ selection'.result.kind = "host"
                /\ selection'.result.host = top[(cursor % Len(top)) + 1]]_vars

SkipsReferencedHost ==
    [][\A r \in Replicas :
          (mc[r].pc = "select" /\ mc'[r].pc = "lease")
             => LET ref == byoHost[mc'[r].host].machineRef
                IN ref = None \/ byoMachine[ref].state = "gone"]_vars

\* C26 (a live lease excludes the others): while a host carries a lease that is
\* within its 30 s, no claim of another Machine takes the lease or binds the
\* host; a lease attempt that meets such a lease leaves the host as it is and
\* goes on to its next attempt.
LiveLeaseExcludesOthers ==
    [][\A h \in Hosts :
          LET lease == byoHost[h].lease
          IN (lease.holder # None /\ lease.valid)
                => /\ byoHost'[h].lease.holder \in {None, lease.holder}
                   /\ (byoHost'[h].machineRef # byoHost[h].machineRef
                          /\ byoHost'[h].machineRef # None)
                         => byoHost'[h].machineRef = lease.holder
                   /\ \A r \in Replicas :
                         (mc[r].pc = "lease" /\ mc[r].host = h /\ mc'[r].pc # "lease")
                            => /\ byoHost'[h] = byoHost[h]
                               /\ mc'[r] = NextAttempt(mc[r])]_vars

\* C27 (a crashed controller's lease): after a controller has died holding the
\* lease of a host, the host is eventually bound by another claim; nobody
\* removes the lease, it only grows older than its 30 s.
CrashedLeaseExpires ==
    (mc["r1"].pc = "crashed") ~> (byoHost["h1"].machineRef = "m2")

\* The host is bound to m2 under a lease acquired by m2's claim, after the claim
\* of m1 died.
BoundAfterCrashedLease ==
    /\ mc["r1"].pc = "crashed"
    /\ mc["r2"].pc = "release"
    /\ byoHost["h1"].machineRef = "m2"
    /\ byoHost["h1"].lease.holder = "m2"

\* C28 (bounded retry across hosts): a failed binding patch releases the lease
\* of the host and the loop goes on, and a reconcile in which a patch has failed
\* gives up only after its MaxRetries attempts, in either join mode.
ClaimRetriesInBothModes ==
    [][/\ (claimLoop.pc = "patch" /\ claimLoop'.failures = claimLoop.failures + 1)
             => /\ claimLoop'.lease[claimLoop.host] = "none"
                /\ claimLoop'.pc \in {"select", "requeue"}
       /\ (claimLoop'.pc # claimLoop.pc /\ claimLoop'.pc \in {"requeue", "error"}
              /\ claimLoop'.failures > 0)
             => claimLoop'.attempt = MaxRetries]_vars

\* C30 (the Machine waits for its deleting host): a deleting Machine whose host
\* is being deleted and still refers to it is not finalized before the host's
\* deletion is older than the cleanup timeout the ByoHost controller computes
\* for that host.
MachineWaitsForHostTimeout ==
    [][\A m \in Machines, h \in Hosts :
          (/\ byoMachine[m].state = "deleting"
           /\ byoMachine'[m].state = "gone"
           /\ byoHost[h].machineRef = m
           /\ byoHost[h].deletionAge # NoStamp)
             => byoHost[h].deletionAge[1] > getCleanupTimeout(h)]_vars


\* C31: the Machine Controller marks a Machine ready only when the host attached
\* to it has NodeBootstrapped=True: in every step that makes a Machine ready, the
\* host carrying its attached-machine label is bootstrapped.
ReadyOnlyAfterBootstrapped ==
    [][\A m \in Machines :
          (~byoMachine[m].ready /\ byoMachine'[m].ready)
             => \E h \in registered : byoHost[h].label = m /\ byoHost[h].bootstrapped]_vars


\* C32: no reconcile runs the install script more than 3 times; a reconcile whose
\* 3 runs all returned an error leaves the condition False with the failure
\* reason, returns the error and leaves the host to the next reconcile, which
\* starts the installation again; and a reconcile marks the condition True only
\* when one of its runs returned no error.
InstallRetriedThenSurfaced ==
    [][/\ cmdRun'.attempt <= 3
       /\ cmdRun.pc = "failed" =>
             /\ cmdRun.attempt = 3 /\ cmdRun.errs = 3
             /\ cmdRun'.installed = "K8sComponentsInstallationFailedReason"
             /\ cmdRun'.reterr
             /\ cmdRun'.pc = "idle" /\ cmdRun'.attempt = 0
       /\ (cmdRun'.installed = "True" /\ cmdRun.installed # "True") =>
             cmdRun.errs < cmdRun.attempt]_vars

\* C32 witness: the install failed 3 times in the first reconcile, and the
\* second reconcile is running the script again.
SecondReconcileRetries ==
    /\ cmdRun.reconciles = 1
    /\ cmdRun.executed = 4
    /\ cmdRun.installed = "K8sComponentsInstallationFailedReason"
    /\ cmdRun.pc = "running"
    /\ cmdRun.attempt = 1


\* C33: a wait between two attempts returns as soon as the context is cancelled:
\* no time passes in a wait whose context is cancelled.
WaitsExitOnCancel ==
    [][~(/\ waits.cancelled
         /\ waits.pc = "waiting"
         /\ waits'.pc = "waiting"
         /\ waits'.left < waits.left)]_vars

\* The same of the waits of the node reset alone.
ResetWaitExitsOnCancel ==
    [][~(/\ waits.loop = "reset"
         /\ waits.cancelled
         /\ waits.pc = "waiting"
         /\ waits'.pc = "waiting"
         /\ waits'.left < waits.left)]_vars




\* The fields of a ByoHost the server-side controllers write (MachineRef, the
\* labels, the annotations, the binding's spec fields) and those the agent writes
\* (the conditions).
ServerFields ==
    {"machineRef", "label", "cleanupAnn", "startedAt", "auditAnn", "lease",
     "bootstrapSecret", "installationSecret"}

AgentFields == {"installed", "bootstrapped"}

SameFields(F) == \A h \in Hosts, f \in F : byoHost'[h][f] = byoHost[h][f]

\* C34: the writers of a ByoHost touch disjoint sets of fields: a write of the
\* agent leaves MachineRef, the labels, the annotations and the binding's spec
\* fields as they are, and a write of a server-side controller leaves the
\* conditions as they are.
WritersDisjoint ==
    [][/\ (\E h \in Hosts : AgentPatch(h) \/ AgentIdle(h)) => SameFields(ServerFields)
       /\ ((\E r \in Replicas, m \in Machines : MCDelete(r, m) \/ MCAttached(r, m))
             \/ (\E r \in Replicas : MCSelect(r) \/ MCLease(r) \/ MCClaim(r)
                                       \/ MCClaimFail(r) \/ MCRelease(r))
             \/ (\E h \in Hosts : HCReconcile(h)))
          => SameFields(AgentFields)]_vars

\* The agent's half of it.
AgentKeepsServerFields ==
    [][(\E h \in Hosts : AgentPatch(h) \/ AgentIdle(h)) => SameFields(ServerFields)]_vars

\* The server's half of it.
ServerKeepsConditions ==
    [][((\E r \in Replicas, m \in Machines : MCDelete(r, m) \/ MCAttached(r, m))
          \/ (\E r \in Replicas : MCSelect(r) \/ MCLease(r) \/ MCClaim(r)
                                    \/ MCClaimFail(r) \/ MCRelease(r))
          \/ (\E h \in Hosts : HCReconcile(h)))
          => SameFields(AgentFields)]_vars


\* C35: a cleanup that failed with a permanent error does not keep the host from
\* being released: when the agent's reconcile of such a cleanup returns, on the
\* path of the cleanup annotation as on that of the deletion, the host has no
\* MachineRef, no cluster labels and no cleanup annotation.
PermanentFailureReleases ==
    [][\A h \in Hosts :
          (agent[h].pc = "failedPermanent" /\ agent'[h].pc = "idle")
             => /\ byoHost'[h].machineRef = None
                /\ byoHost'[h].label = None
                /\ ~byoHost'[h].cleanupAnn]_vars

\* The same on the path of the host's deletion alone.
PermanentFailureReleasesDeleted ==
    [][\A h \in Hosts :
          (/\ agent[h].pc = "failedPermanent" /\ agent'[h].pc = "idle"
           /\ ~agent[h].snap.cleanupAnn)
             => /\ byoHost'[h].machineRef = None
                /\ byoHost'[h].label = None
                /\ ~byoHost'[h].cleanupAnn]_vars


\* C36: a reconcile of a BootstrapKubeconfig whose status holds the kubeconfig
\* of its API server, and whose API-server and CA fields stay as they are,
\* creates no token secret and leaves the status as it is.
NoTokenOnceData ==
    [][(/\ bootstrapKubeconfig.data # <<>>
        /\ bootstrapKubeconfig.data[2] = bootstrapKubeconfig.apiServer
        /\ bootstrapKubeconfig'.apiServer = bootstrapKubeconfig.apiServer
        /\ bootstrapKubeconfig'.ca = bootstrapKubeconfig.ca)
          => /\ bootstrapKubeconfig'.created = bootstrapKubeconfig.created
             /\ bootstrapKubeconfig'.data = bootstrapKubeconfig.data]_vars




\* C37: the ByoHost controller force-releases a host that is not being deleted
\* only when the cleanup annotation has been on it, since it was last set, for
\* the host's cleanup timeout at least.
ForceReleaseAfterTimeout ==
    [][\A h \in Hosts :
          (/\ HCReconcile(h)
           /\ byoHost[h].deletionAge = NoStamp
           /\ byoHost[h].cleanupAnn /\ ~byoHost'[h].cleanupAnn)
             => cleanupAge[h][1] >= getCleanupTimeout(h)]_vars


\* C38: for one deletion of a Machine its host is marked for cleanup once: a
\* reconcile of the deleted Machine does not set the cleanup annotation on a
\* host when the cleanup of that Machine had been started before and the
\* annotation has since been removed.
MarkedForCleanupOnce ==
    [][\A m \in Machines, h \in Hosts :
          (/\ \E r \in Replicas : MCDelete(r, m)
           /\ ~byoHost[h].cleanupAnn /\ byoHost'[h].cleanupAnn)
             => ~byoMachine[m].cleanupStarted]_vars


\* C39 (a leftover TLS-bootstrap secret does not block the claim): an attempt
\* that comes to create the bootstrap secret of a Machine whose secret is left
\* over from an earlier failed attempt goes on to the binding patch, so the
\* Machine can still be bound.
LeftoverSecretDoesNotFail ==
    [][(claimLoop.pc = "secret" /\ claimLoop.secret)
          => claimLoop'.pc = "patch"]_vars

\* What the loop does instead: in TLS-bootstrap mode a host is only ever bound
\* by the first binding patch made for the Machine.
BoundOnlyByFirstPatch ==
    (claimLoop.joinMode = "tlsbootstrap" /\ claimLoop.bound # None)
       => claimLoop.failures = 0


\* C40 (a release removes only the caller's own lease): a claimant that reaches
\* its release step, after a failed or a successful binding patch, leaves a
\* valid lease on the host that another claimant holds as it is.
ReleaseKeepsOthersLease ==
    [][\A r \in Replicas :
          LET h == mc[r].host IN
          (/\ MCClaimFail(r) \/ MCRelease(r)
           /\ byoHost[h].lease.valid
           /\ byoHost[h].lease.holder \notin {None, mc[r].machine})
             => byoHost'[h].lease = byoHost[h].lease]_vars

====
